---- MODULE Spec2Model ----
(***************************************************************************)
(* Pipeline executors of Mikroscopy-Digitalis.                             *)
(*                                                                         *)
(*   dfs : src/pipeline_execution.py            (batch processing)         *)
(*   bfs : src/src/windows/processing_panel.py  (breadth-first variant)    *)
(*                                                                         *)
(* A pipeline document is [nodes, connections]; an image is abstracted to  *)
(* one pixel value and a channel count.                                    *)
(***************************************************************************)
EXTENDS Integers, Sequences, FiniteSets, TLC

VARIABLES doc, cur, exec, order, ctorRaised, last, firstRet,
          canvas, lastOp, batch, pscene, cam, stage, sm

execVars == <<doc, cur, exec, order, ctorRaised, last, firstRet>>
canvasVars == <<canvas, lastOp>>
appVars == <<pscene, cam, stage, sm>>
vars == <<doc, cur, exec, order, ctorRaised, last, firstRet, canvas, lastOp, batch,
          pscene, cam, stage, sm>>

(***************************************************************************)
(* Bounds of the model.                                                    *)
(***************************************************************************)
MaxOrderConns == 3
MaxExecConns == 4

(***************************************************************************)
(* Python values.  Every value is a triple <<tag, n, c>>.                  *)
(***************************************************************************)
None == <<"none", 0, 0>>
Img(p, c) == <<"img", p, c>>
IntV(n) == <<"int", n, 0>>
DataV(n) == <<"data", n, 0>>
Absent == <<"absent", 0, 0>>
RaisedV == <<"raise", 0, 0>>

IsImg(v) == v[1] = "img"

PixMax == 255
Clip(n) == IF n < 0 THEN 0 ELSE IF n > PixMax THEN PixMax ELSE n

\* keys of the dictionaries that occur: result keys, port names, parameters
KeyList == <<"image", "data", "output", "Value", "brightness", "Min Area", "NONE">>
Keys == {KeyList[i] : i \in DOMAIN KeyList}
EmptyDict == [k \in Keys |-> None]
DictGet(d, k) == IF k \in Keys THEN d[k] ELSE None
DictSet(d, k, v) == [d EXCEPT ![k] = v]

\* an entry of results / node_outputs, and the value execute returns
RawE(v) == [isdict |-> FALSE, v |-> v, d |-> EmptyDict]
DictE(d) == [isdict |-> TRUE, v |-> None, d |-> d]
NoEntry == RawE(Absent)
RaisedE == RawE(RaisedV)
ImageDataE(i, dt) == DictE([EmptyDict EXCEPT !["image"] = i, !["data"] = dt])

\* JSON field states of a connection record
MISSING == "MISSING"
NULL == "NULL"

(***************************************************************************)
(* Pipeline documents.                                                     *)
(***************************************************************************)
NoPipeline == [nodes |-> <<>>, connections |-> <<>>]

Node(id, type, name, params, pd) ==
    [id |-> id, node_type |-> type, name |-> name, parameters |-> params,
     pipeline_data |-> pd]

Conn(f, t, tp, fo) ==
    [from_node |-> f, to_node |-> t, to_parameter |-> tp, from_output |-> fo]

InputNode(id) == Node(id, "input", "Input", EmptyDict, NoPipeline)
OutputNode(id) == Node(id, "output", "Output", EmptyDict, NoPipeline)
AddNode(id, n) ==
    Node(id, "process", "Add", DictSet(EmptyDict, "Value", IntV(n)), NoPipeline)
BrightnessNode(id, n) ==
    Node(id, "process", "Brightness",
         DictSet(EmptyDict, "brightness", IntV(n)), NoPipeline)
ObjCharNode(id) ==
    Node(id, "process", "Object Characteristics", EmptyDict, NoPipeline)
AlgoNode(id, pd) == Node(id, "algorithm", "Algo", EmptyDict, pd)

NodeIds(d) == {d.nodes[i].id : i \in DOMAIN d.nodes}

\* sequences without repetition over S, of length at most k
SeqsUpTo(S, k) ==
    UNION {{s \in [1..n -> S] : \A i, j \in 1..n : i < j => s[i] # s[j]}
           : n \in 0..k}

\* the subsequence of seq at the indices J
SubSeqOf(seq, J) ==
    LET F[i \in 0..Len(seq)] ==
            IF i = 0 THEN <<>>
            ELSE IF i \in J THEN Append(F[i-1], seq[i]) ELSE F[i-1]
    IN F[Len(seq)]

\* documents for the scheduling: every order of the connection list,
\* cycles among the process nodes, one connection to an unknown node
OrderNodes == <<InputNode("I"), AddNode("A", 5), AddNode("B", 7), OutputNode("O")>>
OrderEdges ==
    {<<"I", "A">>, <<"I", "B">>, <<"A", "B">>, <<"B", "A">>,
     <<"A", "O">>, <<"B", "O">>, <<"I", "O">>, <<"A", "X">>}
OrderDocs ==
    {[nodes |-> OrderNodes,
      connections |-> [i \in DOMAIN s |-> Conn(s[i][1], s[i][2], NULL, "image")]]
     : s \in SeqsUpTo(OrderEdges, MaxOrderConns)}

\* documents for the execution.  Two dialects of the main-input
\* connection: to_parameter null, or "image" as the editor's serializer
\* writes it (Connection.__init__: to_parameter or "image")
Dialects == {NULL, "image"}
ParamOf(dialect) == IF dialect = NULL THEN "Value" ELSE "brightness"
ProcNode(dialect, id, n) ==
    IF dialect = NULL THEN AddNode(id, n) ELSE BrightnessNode(id, n)

Nested(dialect) ==
    [nodes |-> <<InputNode("i"), ProcNode(dialect, "n", 3), OutputNode("o")>>,
     connections |-> <<Conn("i", "n", dialect, "image"),
                       Conn("n", "o", dialect, "image")>>]

\* an embedded pipeline whose Output node receives an image and data
NestedData(dialect) ==
    [nodes |-> <<InputNode("i"), ObjCharNode("n"), OutputNode("o")>>,
     connections |-> <<Conn("i", "n", dialect, "image"),
                       Conn("n", "o", dialect, "image"),
                       Conn("n", "o", "data", "data")>>]

ANodes(dialect) ==
    {ProcNode(dialect, "A", 7), ObjCharNode("A"), AlgoNode("A", NoPipeline),
     AlgoNode("A", Nested(dialect)), AlgoNode("A", NestedData(dialect))}

ExecConns(dialect) ==
    <<Conn("I", "A", dialect, "image"),
      Conn("I", "B", dialect, "image"),
      Conn("A", "B", dialect, "image"),
      Conn("A", "B", dialect, "data"),
      Conn("A", "B", ParamOf(dialect), "image"),
      Conn("A", "B", ParamOf(dialect), MISSING),
      Conn("A", "B", ParamOf(dialect), "data"),
      Conn("A", "O", dialect, "image"),
      Conn("B", "O", dialect, "image"),
      Conn("I", "O", dialect, "image"),
      Conn("A", "O", "data", "data")>>

ExecDocs ==
    {[nodes |-> <<InputNode("I"), a, ProcNode(dialect, "B", 5), OutputNode("O")>>,
      connections |-> SubSeqOf(ExecConns(dialect), J)]
     : <<dialect, a, J>> \in
         {x \in Dialects \X (ANodes(NULL) \cup ANodes("image"))
                \X {K \in SUBSET (1..11) : Cardinality(K) <= MaxExecConns} :
            x[2] \in ANodes(x[1])}}

(***************************************************************************)
(* Connection graph of a document.                                         *)
(***************************************************************************)
Edges(d) ==
    {<<d.connections[i].from_node, d.connections[i].to_node>>
     : i \in DOMAIN d.connections}

RECURSIVE ReachSet(_, _, _)
ReachSet(E, frontier, seen) ==
    LET nxt == {e[2] : e \in {x \in E : x[1] \in frontier}} \ seen
    IN IF nxt = {} THEN seen ELSE ReachSet(E, nxt, seen \cup nxt)

\* nodes reachable from n by one or more connections
Descendants(d, n) == ReachSet(Edges(d), {n}, {})
Cyclic(d) == \E n \in NodeIds(d) : n \in Descendants(d, n)
Dangling(d) ==
    \E e \in Edges(d) : e[1] \notin NodeIds(d) \/ e[2] \notin NodeIds(d)

FirstOfType(d, type) ==
    LET I == {i \in DOMAIN d.nodes : d.nodes[i].node_type = type}
    IN IF I = {} THEN 0 ELSE CHOOSE i \in I : \A j \in I : i <= j

IndexOf(s, x) ==
    LET I == {i \in DOMAIN s : s[i] = x}
    IN IF I = {} THEN 0 ELSE CHOOSE i \in I : \A j \in I : i <= j

(***************************************************************************)
(* dfs executor: _compute_execution_order                                  *)
(***************************************************************************)
\* adj[node_id]: the to_node of the connections leaving node_id, in list order
Adj(d, n) ==
    LET F[i \in 0..Len(d.connections)] ==
            IF i = 0 THEN <<>>
            ELSE IF d.connections[i].from_node = n
                 THEN Append(F[i-1], d.connections[i].to_node)
                 ELSE F[i-1]
    IN F[Len(d.connections)]

RECURSIVE dfs(_, _, _)
RECURSIVE dfsEach(_, _, _)
dfs(d, node_id, st) ==
    IF st.raised \/ node_id \in st.visited THEN st
    ELSE IF node_id \notin NodeIds(d)
         THEN [st EXCEPT !.raised = TRUE]
         ELSE LET st1 == [st EXCEPT !.visited = @ \cup {node_id}]
                  st2 == dfsEach(d, Adj(d, node_id), st1)
              IN IF st2.raised THEN st2
                 ELSE [st2 EXCEPT !.order = Append(@, node_id)]
dfsEach(d, succs, st) ==
    IF succs = <<>> \/ st.raised THEN st
    ELSE dfsEach(d, Tail(succs), dfs(d, Head(succs), st))

Reverse(s) == [i \in 1..Len(s) |-> s[Len(s) + 1 - i]]

compute_execution_order(d) ==
    LET inp == FirstOfType(d, "input")
        st0 == [visited |-> {}, order |-> <<>>, raised |-> FALSE]
    IN IF inp = 0 THEN [raised |-> FALSE, order |-> <<>>]
       ELSE IF \E i \in DOMAIN d.connections :
                   d.connections[i].from_node \notin NodeIds(d)
            THEN [raised |-> TRUE, order |-> <<>>]
            ELSE LET st == dfs(d, d.nodes[inp].id, st0)
                 IN IF st.raised THEN [raised |-> TRUE, order |-> <<>>]
                    ELSE [raised |-> FALSE, order |-> Reverse(st.order)]

(***************************************************************************)
(* bfs executor: _build_execution_order                                    *)
(***************************************************************************)
RECURSIVE bfsConns(_, _, _, _)
bfsConns(d, i, current_id, st) ==
    IF i > Len(d.connections) THEN st
    ELSE LET conn == d.connections[i]
         IN IF conn.from_node = current_id /\ conn.to_node \notin st.visited
            THEN bfsConns(d, i + 1, current_id,
                          [visited |-> st.visited \cup {conn.to_node},
                           order |-> Append(st.order, conn.to_node),
                           queue |-> Append(st.queue, conn.to_node)])
            ELSE bfsConns(d, i + 1, current_id, st)

RECURSIVE bfsLoop(_, _)
bfsLoop(d, st) ==
    IF st.queue = <<>> THEN st
    ELSE bfsLoop(d, bfsConns(d, 1, Head(st.queue),
                             [st EXCEPT !.queue = Tail(@)]))

RECURSIVE appendUnvisited(_, _, _, _)
appendUnvisited(d, i, visited, ord) ==
    IF i > Len(d.nodes) THEN ord
    ELSE appendUnvisited(d, i + 1, visited,
                         IF d.nodes[i].id \in visited THEN ord
                         ELSE Append(ord, d.nodes[i].id))

\* variant: the nodes that the search has not reached are left out
build_execution_order_reached(d) ==
    LET inp == FirstOfType(d, "input")
    IN IF inp = 0 THEN [i \in DOMAIN d.nodes |-> d.nodes[i].id]
       ELSE bfsLoop(d, [visited |-> {d.nodes[inp].id},
                        order |-> <<d.nodes[inp].id>>,
                        queue |-> <<d.nodes[inp].id>>]).order

build_execution_order(d) ==
    LET inp == FirstOfType(d, "input")
    IN IF inp = 0 THEN [i \in DOMAIN d.nodes |-> d.nodes[i].id]
       ELSE LET id == d.nodes[inp].id
                st == bfsLoop(d, [visited |-> {id}, order |-> <<id>>,
                                  queue |-> <<id>>])
            IN appendUnvisited(d, 1, st.visited, st.order)

(***************************************************************************)
(* Reading a value from an upstream entry.                                 *)
(***************************************************************************)
ResGet(results, id) == IF id \in DOMAIN results THEN results[id] ELSE NoEntry

\* isinstance(from_node_results, dict) ? .get(from_output) : from_node_results
ValueOf(e, fo) ==
    IF e.isdict THEN DictGet(e.d, fo)
    ELSE IF e = NoEntry THEN None ELSE e.v

IsNull(field) == field \in {NULL, MISSING}
OrDefault(field, dflt) == IF field = MISSING THEN dflt ELSE field

NodeIdx(d, id) == IndexOf([i \in DOMAIN d.nodes |-> d.nodes[i].id], id)
\* what the loop of execute did at a node: visited it, invoked its operation
\* with params and input, and whether the operation raised into the loop
NoCall == [visited |-> FALSE, called |-> FALSE, raised |-> FALSE,
           params |-> EmptyDict, input |-> None]
Skipped == [NoCall EXCEPT !.visited = TRUE]
Called(params, input, raised) ==
    [visited |-> TRUE, called |-> TRUE, raised |-> raised, params |-> params,
     input |-> input]

(***************************************************************************)
(* dfs executor: execute, _apply_node_operation, _execute_algorithm_node   *)
(***************************************************************************)
\* variant: an unknown name gives no image
DfsOperatorUnknownBlank(name, params, input) ==
    IF name \in {"Add", "Object Characteristics"} THEN RawE(input)
    ELSE RawE(None)

\* the operators of the library that the model keeps (lines 174-667)
DfsOperator(name, params, input) ==
    CASE name = "Add" ->
           LET value == IF params["Value"] = None THEN IntV(0)
                        ELSE params["Value"]
           IN IF value[1] = "int"
              THEN RawE(Img(Clip(input[2] + value[2]), input[3]))
              ELSE IF value[1] = "img"
                   THEN RawE(Img(Clip(input[2] + value[2]), 3))
                   ELSE RawE(input)
      [] name = "Object Characteristics" ->
           ImageDataE(input, DataV(IF input[2] > 127 THEN 1 ELSE 0))
      [] OTHER -> RawE(input)

\* variant: the output node always stores the {image, data} structure
DfsOutputEntryAlwaysDict(d, results, node_id) ==
    LET F[i \in 0..Len(d.connections)] ==
            IF i = 0 THEN [image |-> None, data |-> None]
            ELSE LET conn == d.connections[i]
                     value == ValueOf(ResGet(results, conn.from_node),
                                      OrDefault(conn.from_output, "image"))
                 IN IF conn.to_node # node_id THEN F[i-1]
                    ELSE IF IsNull(conn.to_parameter)
                            \/ conn.to_parameter = "image"
                         THEN [F[i-1] EXCEPT !.image = value]
                         ELSE IF conn.to_parameter = "data"
                              THEN [F[i-1] EXCEPT !.data = value]
                              ELSE F[i-1]
    IN ImageDataE(F[Len(d.connections)].image, F[Len(d.connections)].data)

\* the output node's entry (lines 82-106)
DfsOutputEntry(d, results, node_id) ==
    LET F[i \in 0..Len(d.connections)] ==
            IF i = 0 THEN [image |-> None, data |-> None]
            ELSE LET conn == d.connections[i]
                     value == ValueOf(ResGet(results, conn.from_node),
                                      OrDefault(conn.from_output, "image"))
                 IN IF conn.to_node # node_id THEN F[i-1]
                    ELSE IF IsNull(conn.to_parameter)
                            \/ conn.to_parameter = "image"
                         THEN [F[i-1] EXCEPT !.image = value]
                         ELSE IF conn.to_parameter = "data"
                              THEN [F[i-1] EXCEPT !.data = value]
                              ELSE F[i-1]
        output_result == F[Len(d.connections)]
    IN IF output_result.image # None /\ output_result.data = None
       THEN RawE(output_result.image)
       ELSE ImageDataE(output_result.image, output_result.data)

\* variant: the loop over the connections lacks its break
DfsInputConnLast(d, node_id) ==
    LET I == {i \in DOMAIN d.connections :
                 /\ d.connections[i].to_node = node_id
                 /\ IsNull(d.connections[i].to_parameter)}
    IN IF I = {} THEN 0 ELSE CHOOSE i \in I : \A j \in I : i >= j

\* the first connection into node_id whose to_parameter is None (lines 108-112)
DfsInputConn(d, node_id) ==
    LET I == {i \in DOMAIN d.connections :
                 /\ d.connections[i].to_node = node_id
                 /\ IsNull(d.connections[i].to_parameter)}
    IN IF I = {} THEN 0 ELSE CHOOSE i \in I : \A j \in I : i <= j

\* the main input of node_id, None when the node is to be skipped (113-127)
DfsInputData(d, results, node_id) ==
    LET ic == DfsInputConn(d, node_id)
    IN IF ic = 0 THEN None
       ELSE ValueOf(ResGet(results, d.connections[ic].from_node),
                    OrDefault(d.connections[ic].from_output, "image"))

\* param_connections (lines 128-140); None stands for "no such key"
DfsParamConnections(d, results, node_id) ==
    LET F[i \in 0..Len(d.connections)] ==
            IF i = 0 THEN EmptyDict
            ELSE LET conn == d.connections[i]
                     param_value ==
                         ValueOf(ResGet(results, conn.from_node),
                                 OrDefault(conn.from_output, "output"))
                 IN IF conn.to_node = node_id /\ ~IsNull(conn.to_parameter)
                       /\ param_value # None
                    THEN DictSet(F[i-1], conn.to_parameter, param_value)
                    ELSE F[i-1]
    IN F[Len(d.connections)]

\* dict.update
DictUpdate(d, upd) ==
    LET F[i \in 0..Len(KeyList)] ==
            IF i = 0 THEN d
            ELSE IF upd[KeyList[i]] # None
                 THEN [F[i-1] EXCEPT ![KeyList[i]] = upd[KeyList[i]]]
                 ELSE F[i-1]
    IN F[Len(KeyList)]

RECURSIVE DfsExecute(_, _, _)

\* variant: only the image of the sub-executor's return is handed on
DfsSubResultImageOnly(r) ==
    [raised |-> FALSE,
     out |-> IF r.ret.isdict THEN RawE(r.ret.d["image"]) ELSE r.ret,
     pd |-> r.doc]

\* what _execute_algorithm_node makes of the sub-executor's return r
DfsSubResult(r) == [raised |-> FALSE, out |-> r.ret, pd |-> r.doc]

\* _execute_algorithm_node, after the sub-executor is built with the order c
DfsSubPipeline(node, input_data, c) ==
    IF c.raised
    THEN [raised |-> FALSE, out |-> RawE(input_data), pd |-> node.pipeline_data]
    ELSE DfsSubResult(DfsExecute(node.pipeline_data, c.order, input_data))

\* _execute_algorithm_node: [raised, out, pd] with the embedded document as
\* the sub-executor leaves it
DfsAlgorithm(node, input_data) ==
    IF node.pipeline_data = NoPipeline
    THEN [raised |-> FALSE, out |-> RawE(input_data), pd |-> node.pipeline_data]
    ELSE DfsSubPipeline(node, input_data,
                        compute_execution_order(node.pipeline_data))

\* _apply_node_operation: [raised, out, pd]
DfsApply(node, input_data) ==
    IF node.node_type = "algorithm"
    THEN DfsAlgorithm(node, input_data)
    ELSE IF ~IsImg(input_data) \/ input_data[3] < 3
         THEN [raised |-> TRUE, out |-> RaisedE, pd |-> node.pipeline_data]
         ELSE [raised |-> FALSE,
               out |-> DfsOperator(node.name, node.parameters, input_data),
               pd |-> node.pipeline_data]

\* results[node_id] = ... after _apply_node_operation returned a (143-152)
DfsStore(st, k, node_id, node, input_data, a) ==
    [st EXCEPT !.doc.nodes[k] = [node EXCEPT !.pipeline_data = a.pd],
               !.results[node_id] =
                   IF a.raised
                   THEN DictE(DictSet(EmptyDict, "output", input_data))
                   ELSE IF a.out.isdict THEN a.out
                        ELSE DictE(DictSet(EmptyDict, "image", a.out.v)),
               !.calls[node_id] = Called(node.parameters, input_data, a.raised)]

\* a process or algorithm node with its main input (lines 108-152); node
\* has its parameters updated with the wired ones
DfsProcess(st, k, node_id, node, input_data) ==
    IF input_data = None
    THEN [st EXCEPT !.calls[node_id] = Skipped]
    ELSE DfsStore(st, k, node_id, node, input_data, DfsApply(node, input_data))

\* one iteration of the loop of execute (lines 73-152), k the node's index
DfsVisit(st, k, node_id, img) ==
    CASE st.doc.nodes[k].node_type = "input" ->
              [st EXCEPT !.results[node_id] =
                             DictE(DictSet(EmptyDict, "image", img)),
                         !.calls[node_id] = Skipped]
      [] st.doc.nodes[k].node_type = "output" ->
              [st EXCEPT !.results[node_id] =
                             DfsOutputEntry(st.doc, st.results, node_id),
                         !.calls[node_id] = Skipped]
      [] st.doc.nodes[k].node_type \in {"process", "algorithm"} ->
              DfsProcess(st, k, node_id,
                         [st.doc.nodes[k] EXCEPT !.parameters =
                             DictUpdate(@, DfsParamConnections(st.doc, st.results,
                                                               node_id))],
                         DfsInputData(st.doc, st.results, node_id))
      [] OTHER -> [st EXCEPT !.calls[node_id] = Skipped]

\* variant: the loop passes over the node without processing it
DfsStepNone(st, node_id, img) == st

DfsStep(st, node_id, img) == DfsVisit(st, NodeIdx(st.doc, node_id), node_id, img)

RECURSIVE DfsLoop(_, _, _, _)
DfsLoop(st, ord, i, img) ==
    IF i > Len(ord) THEN st
    ELSE DfsLoop(DfsStep(st, ord[i], img), ord, i + 1, img)

\* the return of execute (lines 154-160): [ret, doc, results, calls]
DfsReturn(st, out, img) ==
    [ret |-> IF out # 0 /\ st.results[st.doc.nodes[out].id] # NoEntry
             THEN st.results[st.doc.nodes[out].id]
             ELSE RawE(img),
     doc |-> st.doc, results |-> st.results, calls |-> st.calls]

\* execute(input_image_array)
DfsExecute(d, ord, img) ==
    DfsReturn(DfsLoop([doc |-> d,
                       results |-> [n \in NodeIds(d) |-> NoEntry],
                       calls |-> [n \in NodeIds(d) |-> NoCall]],
                      ord, 1, img),
              FirstOfType(d, "output"), img)

(***************************************************************************)
(* bfs executor: execute, _get_node_inputs, _execute_process_node,         *)
(* _execute_algorithm_node                                                 *)
(***************************************************************************)
\* _get_node_inputs; the key None of a dictionary is written "NONE"
get_node_inputs(d, node_outputs, node_id) ==
    LET F[i \in 0..Len(d.connections)] ==
            IF i = 0 THEN EmptyDict
            ELSE LET conn == d.connections[i]
                     tp == OrDefault(conn.to_parameter, "image")
                     to_parameter == IF tp = NULL THEN "NONE" ELSE tp
                     from_output == OrDefault(conn.from_output, "image")
                     prev_output == ResGet(node_outputs, conn.from_node)
                 IN IF conn.to_node = node_id /\ prev_output # NoEntry
                    THEN DictSet(F[i-1], to_parameter,
                                 ValueOf(prev_output, from_output))
                    ELSE F[i-1]
    IN F[Len(d.connections)]

\* the _op_* functions that the model keeps
BfsOperator(name, params, image) ==
    CASE name = "Brightness" ->
           IF ~IsImg(image) THEN image
           ELSE LET b == IF params["brightness"] = None THEN IntV(0)
                         ELSE params["brightness"]
                IN IF b[1] = "int" THEN Img(Clip(image[2] + b[2]), image[3])
                   ELSE image
      [] OTHER -> image

\* _execute_process_node
execute_process_node(node, inputs) ==
    IF inputs["image"] = None THEN ImageDataE(None, None)
    ELSE ImageDataE(BfsOperator(node.name, node.parameters, inputs["image"]),
                    None)

RECURSIVE BfsExecute(_, _, _)

\* what _execute_algorithm_node makes of the sub-executor's return r
BfsSubResult(r) ==
    IF r.ret = RaisedE THEN [raised |-> TRUE, out |-> RaisedE]
    ELSE IF r.ret.isdict THEN [raised |-> FALSE, out |-> r.ret]
         ELSE [raised |-> FALSE, out |-> ImageDataE(r.ret.v, None)]

\* _execute_algorithm_node: [raised, out]
BfsAlgorithm(node, inputs) ==
    IF node.pipeline_data = NoPipeline
    THEN [raised |-> FALSE, out |-> DictE(inputs)]
    ELSE IF inputs["image"] = None
         THEN [raised |-> FALSE, out |-> ImageDataE(None, None)]
         ELSE BfsSubResult(BfsExecute(node.pipeline_data,
                                      build_execution_order(node.pipeline_data),
                                      inputs["image"]))

\* node_outputs[node_id] = ... for an algorithm node whose call returned a
BfsStore(st, node_id, node, inputs, a) ==
    [st EXCEPT !.results[node_id] = IF a.raised THEN DictE(inputs) ELSE a.out,
               !.calls[node_id] =
                   IF inputs["image"] = None THEN Skipped
                   ELSE Called(node.parameters, inputs["image"], a.raised)]

\* one iteration of the loop of execute (lines 47-68) at a node of the document
BfsVisit(st, node_id, node, inputs) ==
    CASE node.node_type = "input" ->
              [st EXCEPT !.calls[node_id] = Skipped]
      [] node.node_type = "process" ->
              [st EXCEPT !.results[node_id] = execute_process_node(node, inputs),
                         !.calls[node_id] =
                             IF inputs["image"] = None THEN Skipped
                             ELSE Called(node.parameters, inputs["image"], FALSE)]
      [] node.node_type = "algorithm" ->
              BfsStore(st, node_id, node, inputs, BfsAlgorithm(node, inputs))
      [] OTHER -> [st EXCEPT !.results[node_id] = DictE(inputs),
                             !.calls[node_id] = Skipped]

BfsStep(st, node_id) ==
    IF st.raised THEN st
    ELSE IF node_id \notin NodeIds(st.doc) THEN [st EXCEPT !.raised = TRUE]
         ELSE BfsVisit(st, node_id, st.doc.nodes[NodeIdx(st.doc, node_id)],
                       get_node_inputs(st.doc, st.results, node_id))

RECURSIVE BfsLoop(_, _, _)
BfsLoop(st, ord, i) ==
    IF i > Len(ord) THEN st ELSE BfsLoop(BfsStep(st, ord[i]), ord, i + 1)

\* the return of execute (lines 70-83) with the Output node's entry result:
\* [ret, doc, results, calls]; ret = RaisedE when the call raises
BfsReturn(st, inp, result, img) ==
    [ret |-> IF inp = 0 \/ st.raised THEN RaisedE
             ELSE IF result # NoEntry
                  THEN IF result.d["data"] # None
                       THEN ImageDataE(result.d["image"], result.d["data"])
                       ELSE RawE(result.d["image"])
                  ELSE RawE(img),
     doc |-> st.doc, results |-> st.results, calls |-> st.calls]

\* the loop of execute over the order, then its return
BfsRun(d, st, inp, out, img) ==
    BfsReturn(st, inp,
              IF out = 0 THEN NoEntry ELSE st.results[d.nodes[out].id], img)

\* node_outputs before the loop: the Input node's entry (lines 42-46)
BfsInitial(d, inp, img) ==
    [n \in NodeIds(d) |->
        IF inp # 0 /\ n = d.nodes[inp].id
        THEN DictE(DictSet(EmptyDict, "image", img)) ELSE NoEntry]

\* execute(input_image)
BfsExecute(d, ord, img) ==
    BfsRun(d,
           BfsLoop([doc |-> d,
                    results |-> BfsInitial(d, FirstOfType(d, "input"), img),
                    calls |-> [n \in NodeIds(d) |-> NoCall],
                    raised |-> FALSE], ord, 1),
           FirstOfType(d, "input"), FirstOfType(d, "output"), img)

(***************************************************************************)
(* Node canvas: src/src/windows/node_canvas.py, and the load and save of   *)
(* src/src/scenes/algorithm_scene.py.  A node object is named by its id, a *)
(* connection is [from_node, to_node, to_parameter, from_output].          *)
(***************************************************************************)
MaxCanvasConns == 2

\* self.node_definitions looked up by _get_parameter_info
get_parameter_info(node_name) ==
    CASE node_name = "Add" ->
           <<[name |-> "Value", value |-> IntV(5), connectable |-> TRUE]>>
      [] node_name = "Object Characteristics" ->
           <<[name |-> "Min Area", value |-> IntV(50), connectable |-> FALSE]>>
      [] OTHER -> <<>>

Palette == {"Add", "Object Characteristics"}

\* parameters[param['name']] = param['value'] for every param
ParameterDefaults(param_info) ==
    LET F[i \in 0..Len(param_info)] ==
            IF i = 0 THEN EmptyDict
            ELSE DictSet(F[i-1], param_info[i].name, param_info[i].value)
    IN F[Len(param_info)]

CanvasNode(id, name, node_type, parameters, parameter_info, pd, outs) ==
    [id |-> id, name |-> name, node_type |-> node_type,
     parameters |-> parameters, parameter_info |-> parameter_info,
     pipeline_data |-> pd, algorithm_outputs |-> outs]

Range(s) == {s[i] : i \in DOMAIN s}
ConnectableParams(param_info) ==
    {param_info[i].name : i \in {j \in DOMAIN param_info : param_info[j].connectable}}

\* _update_connection_points: the input and output points of a node
input_points(node) ==
    CASE node.node_type = "input" -> {}
      [] node.node_type = "output" -> {"image", "data"}
      [] OTHER -> {"image"} \cup ConnectableParams(node.parameter_info)

output_points(node) ==
    CASE node.node_type = "input" -> {"image"}
      [] node.node_type = "output" -> {}
      [] node.node_type = "algorithm" -> Range(node.algorithm_outputs)
      [] OTHER -> IF node.name = "Object Characteristics"
                  THEN {"image", "data"} ELSE {"image"}

\* _add_default_nodes
DefaultCanvas ==
    [nodes |-> <<CanvasNode(1, "Input", "input", EmptyDict, <<>>, NoPipeline, <<>>),
                 CanvasNode(2, "Output", "output", EmptyDict, <<>>, NoPipeline, <<>>)>>,
     connections |-> <<>>]

CanvasIds(c) == {c.nodes[i].id : i \in DOMAIN c.nodes}
NodeById(c, id) == c.nodes[CHOOSE i \in DOMAIN c.nodes : c.nodes[i].id = id]
\* uuid4(): an id no node of the canvas has
FreshId(c) ==
    CHOOSE i \in 1..(Len(c.nodes) + 1) :
        /\ i \notin CanvasIds(c)
        /\ \A j \in 1..(Len(c.nodes) + 1) : j \notin CanvasIds(c) => i <= j

add_node_from_template(c, name) ==
    [c EXCEPT !.nodes =
        Append(@, CanvasNode(FreshId(c), name, "process",
                             ParameterDefaults(get_parameter_info(name)),
                             get_parameter_info(name), NoPipeline, <<>>))]

\* node_type of the first node of pd with this id, "" when there is none
NodeTypeIn(pd, id) ==
    LET I == {i \in DOMAIN pd.nodes : pd.nodes[i].id = id}
    IN IF I = {} THEN ""
       ELSE pd.nodes[CHOOSE i \in I : \A j \in I : i <= j].node_type

ImageParam(name) == [name |-> name, value |-> None, connectable |-> TRUE]

\* the list with the fallback entry when it is empty
OrFallback(list, fallback) == IF list = <<>> THEN <<fallback>> ELSE list

ExtractedInputs(pd) ==
    LET F[i \in 0..Len(pd.connections)] ==
            IF i = 0 THEN <<>>
            ELSE IF /\ NodeTypeIn(pd, pd.connections[i].from_node) = "input"
                    /\ pd.connections[i].to_parameter \notin {NULL, MISSING}
                    /\ ImageParam(pd.connections[i].to_parameter) \notin Range(F[i-1])
                 THEN Append(F[i-1], ImageParam(pd.connections[i].to_parameter))
                 ELSE F[i-1]
    IN F[Len(pd.connections)]

extract_algorithm_inputs(pd) == OrFallback(ExtractedInputs(pd), ImageParam("image"))

ExtractedOutputs(pd) ==
    LET F[i \in 0..Len(pd.connections)] ==
            IF i = 0 THEN <<>>
            ELSE IF /\ NodeTypeIn(pd, pd.connections[i].to_node) = "output"
                    /\ OrDefault(pd.connections[i].to_parameter, "image")
                         \notin Range(F[i-1])
                 THEN Append(F[i-1], OrDefault(pd.connections[i].to_parameter, "image"))
                 ELSE F[i-1]
    IN F[Len(pd.connections)]

\* variant: no fallback port
extract_algorithm_outputs_no_fallback(pd) == ExtractedOutputs(pd)
extract_algorithm_outputs(pd) == OrFallback(ExtractedOutputs(pd), "image")

add_algorithm_node(c, pd) ==
    [c EXCEPT !.nodes =
        Append(@, CanvasNode(FreshId(c), "Algo", "algorithm", EmptyDict,
                             extract_algorithm_inputs(pd), pd,
                             extract_algorithm_outputs(pd)))]

\* to_parameter or "image"
OrImage(to_parameter) == IF to_parameter = NULL THEN "image" ELSE to_parameter

\* variant: the output port of the source node is not checked
add_connection_any_output(c, from_node, to_node, to_parameter, from_output) ==
    IF \/ \E i \in DOMAIN c.connections :
             c.connections[i] = Conn(from_node, to_node, to_parameter, from_output)
       \/ from_node = to_node
       \/ OrImage(to_parameter) \notin input_points(NodeById(c, to_node))
    THEN [canvas |-> c, result |-> "None"]
    ELSE [canvas |->
              [c EXCEPT !.connections =
                  Append(@, Conn(from_node, to_node, OrImage(to_parameter),
                                 from_output))],
          result |-> "Connection"]

\* add_connection: [canvas, result], result "None" when the request is refused
add_connection(c, from_node, to_node, to_parameter, from_output) ==
    IF \/ \E i \in DOMAIN c.connections :
             c.connections[i] = Conn(from_node, to_node, to_parameter, from_output)
       \/ from_node = to_node
       \/ from_output \notin output_points(NodeById(c, from_node))
       \/ OrImage(to_parameter) \notin input_points(NodeById(c, to_node))
    THEN [canvas |-> c, result |-> "None"]
    ELSE [canvas |->
              [c EXCEPT !.connections =
                  Append(@, Conn(from_node, to_node, OrImage(to_parameter),
                                 from_output))],
          result |-> "Connection"]

Touches(conn, id) == conn.from_node = id \/ conn.to_node = id
IsFrom(conn, id) == conn.from_node = id
IsTo(conn, id) == conn.to_node = id

\* variant: the connections of the removed node stay
remove_node_keep_connections(c, id) ==
    IF NodeById(c, id).node_type \in {"input", "output"} THEN c
    ELSE [c EXCEPT !.nodes = SelectSeq(c.nodes, LAMBDA n : n.id # id)]

\* variant: Input and Output are removed like any node
remove_node_any(c, id) ==
    [nodes |-> SelectSeq(c.nodes, LAMBDA n : n.id # id),
     connections |-> SelectSeq(c.connections, LAMBDA x : ~Touches(x, id))]

remove_node(c, id) ==
    IF NodeById(c, id).node_type \in {"input", "output"} THEN c
    ELSE [nodes |-> SelectSeq(c.nodes, LAMBDA n : n.id # id),
          connections |-> SelectSeq(c.connections, LAMBDA x : ~Touches(x, id))]

\* _handle_node_right_click on the left, middle or right third of the node
handle_node_right_click(c, id, third) ==
    CASE third = "left" ->
           [c EXCEPT !.connections = SelectSeq(@, LAMBDA x : ~IsTo(x, id))]
      [] third = "right" ->
           remove_node([c EXCEPT !.connections =
                           SelectSeq(@, LAMBDA x : ~IsFrom(x, id))], id)
      [] OTHER -> c

(***************************************************************************)
(* _serialize_pipeline and _deserialize_pipeline of the algorithm scene.   *)
(* A node record of a file is [id, name, node_type, position, parameters,  *)
(* pipeline_data, algorithm_outputs]; its id is the index "node_<idx>".    *)
(***************************************************************************)
FileNode(id, name, node_type, position, parameters, pd, outs) ==
    [id |-> id, name |-> name, node_type |-> node_type, position |-> position,
     parameters |-> parameters, pipeline_data |-> pd, algorithm_outputs |-> outs]

IndexOfId(c, id) == CHOOSE i \in DOMAIN c.nodes : c.nodes[i].id = id

serialize_pipeline(c) ==
    [nodes |->
        [i \in DOMAIN c.nodes |->
            FileNode(i - 1, c.nodes[i].name, c.nodes[i].node_type, "position",
                     c.nodes[i].parameters,
                     c.nodes[i].pipeline_data, c.nodes[i].algorithm_outputs)],
     connections |->
        [i \in DOMAIN c.connections |->
            Conn(IndexOfId(c, c.connections[i].from_node) - 1,
                 IndexOfId(c, c.connections[i].to_node) - 1,
                 c.connections[i].to_parameter, c.connections[i].from_output)]]

\* node_map: pairs <<id in the file, id on the canvas>>
MapSet(node_map, k, v) == {p \in node_map : p[1] # k} \cup {<<k, v>>}
MapGet(node_map, k) ==
    IF \E p \in node_map : p[1] = k
    THEN (CHOOSE p \in node_map : p[1] = k)[2] ELSE 0

RECURSIVE RemoveEach(_, _)
RemoveEach(c, ids) ==
    IF ids = <<>> THEN c ELSE RemoveEach(remove_node(c, Head(ids)), Tail(ids))

\* the process and algorithm nodes of the canvas, in list order
nodes_to_remove(c) ==
    LET F[i \in 0..Len(c.nodes)] ==
            IF i = 0 THEN <<>>
            ELSE IF c.nodes[i].node_type \in {"process", "algorithm"}
                 THEN Append(F[i-1], c.nodes[i].id) ELSE F[i-1]
    IN F[Len(c.nodes)]

\* the record of the file that an Input or Output node of the canvas is
\* mapped to (lines 495-511); reading its position raises when it is missing
MapIoNode(st, pipeline_data, node, k) ==
    IF k = 0 THEN st
    ELSE IF pipeline_data.nodes[k].position = MISSING
         THEN [st EXCEPT !.raised = TRUE]
         ELSE [st EXCEPT !.node_map = MapSet(@, pipeline_data.nodes[k].id, node.id)]

RECURSIVE MapIo(_, _, _)
MapIo(st, pipeline_data, i) ==
    IF i > Len(st.canvas.nodes) \/ st.raised THEN st
    ELSE MapIo(IF st.canvas.nodes[i].node_type \in {"input", "output"}
               THEN MapIoNode(st, pipeline_data, st.canvas.nodes[i],
                              FirstOfType(pipeline_data,
                                          st.canvas.nodes[i].node_type))
               ELSE st,
               pipeline_data, i + 1)

\* a new algorithm node for node_data (lines 514-543)
LoadAlgorithm(st, node_data, id) ==
    [st EXCEPT
        !.canvas.nodes =
            Append(@, CanvasNode(id, node_data.name, "algorithm",
                                 node_data.parameters,
                                 extract_algorithm_inputs(node_data.pipeline_data),
                                 node_data.pipeline_data,
                                 node_data.algorithm_outputs)),
        !.node_map = MapSet(@, node_data.id, id)]

\* one node record of the file (lines 512-559).  A process record raises:
\* line 547 calls self._get_parameter_info, which the scene does not have
LoadNode(st, node_data) ==
    CASE node_data.node_type = "algorithm" ->
           IF node_data.position = MISSING THEN [st EXCEPT !.raised = TRUE]
           ELSE LoadAlgorithm(st, node_data, FreshId(st.canvas))
      [] node_data.node_type = "process" -> [st EXCEPT !.raised = TRUE]
      [] OTHER -> st

RECURSIVE LoadNodes(_, _, _)
LoadNodes(st, pipeline_data, i) ==
    IF i > Len(pipeline_data.nodes) \/ st.raised THEN st
    ELSE LoadNodes(LoadNode(st, pipeline_data.nodes[i]), pipeline_data, i + 1)

\* variant: a record with an unresolved endpoint fails the load
LoadConnStrict(st, conn_data) ==
    IF MapGet(st.node_map, conn_data.from_node) # 0
       /\ MapGet(st.node_map, conn_data.to_node) # 0
    THEN [st EXCEPT !.canvas =
             add_connection(@, MapGet(st.node_map, conn_data.from_node),
                            MapGet(st.node_map, conn_data.to_node),
                            IF conn_data.to_parameter = MISSING THEN NULL
                            ELSE conn_data.to_parameter,
                            OrDefault(conn_data.from_output, "image")).canvas]
    ELSE [st EXCEPT !.raised = TRUE]

\* one connection record of the file (lines 560-571)
LoadConn(st, conn_data) ==
    IF MapGet(st.node_map, conn_data.from_node) # 0
       /\ MapGet(st.node_map, conn_data.to_node) # 0
    THEN [st EXCEPT !.canvas =
             add_connection(@, MapGet(st.node_map, conn_data.from_node),
                            MapGet(st.node_map, conn_data.to_node),
                            IF conn_data.to_parameter = MISSING THEN NULL
                            ELSE conn_data.to_parameter,
                            OrDefault(conn_data.from_output, "image")).canvas]
    ELSE st

RECURSIVE LoadConns(_, _, _)
LoadConns(st, pipeline_data, i) ==
    IF i > Len(pipeline_data.connections) \/ st.raised THEN st
    ELSE LoadConns(LoadConn(st, pipeline_data.connections[i]), pipeline_data, i + 1)

\* _deserialize_pipeline: [canvas, node_map, raised]; canvas is what the
\* canvas holds when the call returns or raises
deserialize_pipeline(c, pipeline_data) ==
    LoadConns(LoadNodes(MapIo([canvas |-> RemoveEach(c, nodes_to_remove(c)),
                               node_map |-> {}, raised |-> FALSE],
                              pipeline_data, 1),
                        pipeline_data, 1),
              pipeline_data, 1)

(***************************************************************************)
(* _deserialize_pipeline_to_canvas of the processing scene: the preview of *)
(* a pipeline on a canvas of its own.  _map_io_nodes and                   *)
(* _create_connections are the loops of the algorithm scene.               *)
(***************************************************************************)
\* _create_process_nodes: every record that is not input or output becomes
\* a process node without parameter info
CreateProcessNode(st, node_data) ==
    IF node_data.node_type \in {"input", "output"} THEN st
    ELSE IF node_data.position = MISSING THEN [st EXCEPT !.raised = TRUE]
    ELSE [st EXCEPT
             !.canvas.nodes =
                 Append(@, CanvasNode(FreshId(st.canvas), node_data.name, "process",
                                      node_data.parameters, <<>>, NoPipeline, <<>>)),
             !.node_map = MapSet(@, node_data.id, FreshId(st.canvas))]

RECURSIVE CreateProcessNodes(_, _, _)
CreateProcessNodes(st, pipeline_data, i) ==
    IF i > Len(pipeline_data.nodes) \/ st.raised THEN st
    ELSE CreateProcessNodes(CreateProcessNode(st, pipeline_data.nodes[i]),
                            pipeline_data, i + 1)

deserialize_pipeline_to_canvas(pipeline_data, c) ==
    LoadConns(CreateProcessNodes(MapIo([canvas |-> c, node_map |-> {},
                                        raised |-> FALSE],
                                       pipeline_data, 1),
                                 pipeline_data, 1),
              pipeline_data, 1)

(***************************************************************************)
(* The editor: operations on the canvas of the algorithm scene.            *)
(***************************************************************************)
\* an embedded pipeline whose Input feeds two ports and whose Output
\* receives "image" twice and "data"
NestedPorts ==
    [nodes |-> <<InputNode("i"), AddNode("n", 3), OutputNode("o")>>,
     connections |-> <<Conn("i", "n", "image", "image"),
                       Conn("i", "n", "Value", "image"),
                       Conn("n", "o", "image", "image"),
                       Conn("n", "o", "data", "image"),
                       Conn("i", "o", "image", "image")>>]

\* an embedded pipeline without any connection
NestedUnconnected ==
    [nodes |-> <<InputNode("i"), OutputNode("o")>>, connections |-> <<>>]

AlgorithmPipelines == {NestedPorts, Nested(NULL), NestedUnconnected}

\* canvases that are saved: built with the operations of the canvas
CanvasWithAdd ==
    add_connection(
        add_connection(add_node_from_template(DefaultCanvas, "Add"),
                       1, 3, "Value", "image").canvas,
        3, 2, "image", "image").canvas

CanvasWithAlgorithm ==
    add_connection(
        add_connection(add_algorithm_node(DefaultCanvas, NestedPorts),
                       1, 3, "image", "image").canvas,
        3, 2, "data", "data").canvas

SavedCanvases == {DefaultCanvas, CanvasWithAdd, CanvasWithAlgorithm}

FileInput(id, position) ==
    FileNode(id, "Input", "input", position, EmptyDict, NoPipeline, <<>>)
FileOutput(id, position) ==
    FileNode(id, "Output", "output", position, EmptyDict, NoPipeline, <<>>)

\* a file with two connection records whose endpoint ids no node has
FileDangling ==
    [nodes |-> <<FileInput(0, "position"), FileOutput(1, "position"),
                 FileNode(2, "Algo", "algorithm", "position", EmptyDict,
                          NestedPorts, <<"image", "data">>)>>,
     connections |-> <<Conn(0, 2, "image", "image"), Conn(2, 9, "image", "image"),
                       Conn(7, 1, "image", "image"), Conn(2, 1, "data", "data")>>]

\* a file with a Process record and a connection record to an unknown id
FileDanglingProcess ==
    [nodes |-> <<FileInput(0, "position"), FileOutput(1, "position"),
                 FileNode(2, "Add", "process", "position",
                          ParameterDefaults(get_parameter_info("Add")),
                          NoPipeline, <<>>)>>,
     connections |-> <<Conn(0, 2, "image", "image"), Conn(2, 9, "image", "image"),
                       Conn(2, 1, "image", "image")>>]

\* a file whose Output record has no position
FileNoPosition ==
    [nodes |-> <<FileInput(0, "position"), FileOutput(1, MISSING)>>,
     connections |-> <<Conn(0, 1, "image", "image")>>]

LoadDocs ==
    {serialize_pipeline(P) : P \in SavedCanvases}
        \cup {FileDangling, FileDanglingProcess, FileNoPosition}

\* the last operation: its name, what it returned, the arguments of an
\* add_connection and the document of a load
NoRequest == <<>>
NoOp == [op |-> "none", result |-> "none", request |-> NoRequest, doc |-> NoPipeline]
Op(op, result) ==
    [op |-> op, result |-> result, request |-> NoRequest, doc |-> NoPipeline]

HasNodeOfType(c, node_type) ==
    \E i \in DOMAIN c.nodes : c.nodes[i].node_type = node_type

RequestParameters == {NULL, "image", "Value", "data"}
RequestOutputs == {"image", "data"}

\* the editing session holds one node besides Input and Output at a time
OnlyDefaultNodes(c) ==
    ~HasNodeOfType(c, "process") /\ ~HasNodeOfType(c, "algorithm")

\* a node of the palette is dropped on the canvas
AddNodeFromTemplate ==
    /\ OnlyDefaultNodes(canvas)
    /\ \E name \in Palette :
          /\ canvas' = add_node_from_template(canvas, name)
          /\ lastOp' = Op("add_node_from_template", "node")
    /\ UNCHANGED <<execVars, batch, appVars>>

\* an algorithm of the library is dropped on the canvas
AddAlgorithmNode ==
    /\ OnlyDefaultNodes(canvas)
    /\ \E pd \in AlgorithmPipelines :
          /\ canvas' = add_algorithm_node(canvas, pd)
          /\ lastOp' = Op("add_algorithm_node", "node")
    /\ UNCHANGED <<execVars, batch, appVars>>

AddConnection ==
    /\ Len(canvas.connections) < MaxCanvasConns
    /\ \E from_node, to_node \in CanvasIds(canvas) :
          \E to_parameter \in RequestParameters : \E from_output \in RequestOutputs :
             \E r \in {add_connection(canvas, from_node, to_node, to_parameter,
                                      from_output)} :
                /\ canvas' = r.canvas
                /\ lastOp' = [Op("add_connection", r.result) EXCEPT !.request =
                                 <<from_node, to_node, to_parameter, from_output>>]
    /\ UNCHANGED <<execVars, batch, appVars>>

\* the Delete key with node id selected: _delete_selected_nodes
DeleteSelectedNodes ==
    /\ \E id \in CanvasIds(canvas) :
          /\ canvas' = remove_node(canvas, id)
          /\ lastOp' = Op("remove_node",
                          IF Len(canvas'.connections) < Len(canvas.connections)
                          THEN "connections_removed" ELSE "none")
    /\ UNCHANGED <<execVars, batch, appVars>>

RightClickNode ==
    /\ \E id \in CanvasIds(canvas) : \E third \in {"left", "middle", "right"} :
          /\ canvas' = handle_node_right_click(canvas, id, third)
          /\ lastOp' = Op("right_click", "none")
    /\ UNCHANGED <<execVars, batch, appVars>>

\* _load_pipeline: the file is decoded and deserialized; any exception is
\* caught and printed
LoadPipeline ==
    /\ Len(canvas.connections) <= MaxCanvasConns
    /\ \E pipeline_data \in LoadDocs :
          \E r \in {deserialize_pipeline(canvas, pipeline_data)} :
             /\ canvas' = r.canvas
             /\ lastOp' = [op |-> "load",
                           result |-> IF r.raised THEN "raised" ELSE "loaded",
                           request |-> NoRequest, doc |-> pipeline_data]
    /\ UNCHANGED <<execVars, batch, appVars>>

\* _load_pipeline of a file that json.load cannot decode
LoadUndecodable ==
    /\ canvas' = canvas
    /\ lastOp' = Op("load", "raised")
    /\ UNCHANGED <<execVars, batch, appVars>>

(***************************************************************************)
(* The objects of the application after their construction: the processing *)
(* scene of src/src/scenes/processing_scene.py, the camera thread of       *)
(* src/camera.py, the stage controller of src/src/stage_control.py and the *)
(* scene switch of src/src/statemachine.py.                                *)
(***************************************************************************)
\* the pipeline file selected in the pipeline viewer: none, a file that
\* json.load cannot decode, a document
NoFile == [kind |-> "none", data |-> NoPipeline]
UndecodableFile == [kind |-> "undecodable", data |-> NoPipeline]
PipelineFile(pipeline_data) == [kind |-> "document", data |-> pipeline_data]

\* ProcessingScene.__init__ with the control panel of
\* src/windows/processing_panel.py; threads holds every worker started
NewProcessingScene ==
    [selected_images |-> <<>>, selected_pipeline |-> NoFile,
     enabled |-> TRUE, processing |-> FALSE, progress |-> 0, total_images |-> 0,
     processing_queue |-> <<>>, threads |-> <<>>,
     output_images |-> <<>>, output_data |-> <<>>]

\* CameraThread.__init__; pc is the position of the capture thread, surface
\* the frame it holds, captured the number of frames taken so far
NewCameraThread ==
    [is_running |-> FALSE, stop_event |-> FALSE, pc |-> "none", surface |-> 0,
     frame_queue |-> <<>>, captured |-> 0, enqueued |-> {}, discarded |-> {},
     lost |-> {}]

\* StageController.__init__ with GPIO available
\* at is where the carriage really is, in steps from the negative endstops;
\* threads are the worker threads started so far, stopper the position of
\* the caller of stop, timed_out whether a join of stop has returned with
\* the worker still alive
NewStageController ==
    [is_moving |-> FALSE, stop_move |-> FALSE, position |-> <<0, 0, 0>>,
     threads |-> <<>>, at |-> <<0, 0, 0>>, stopper |-> "idle",
     timed_out |-> FALSE]

\* Statemachine.__init__; scene objects are numbered in the order of their
\* construction and 0 is no object: scenes maps a scene name to the object
\* registered under it, created is the number of objects made so far, and
\* switched the name that the last switch_scene was called with
SceneNames == {"image_acquisition", "algorithms", "processing", "settings"}
NewStatemachine ==
    [scenes |-> [n \in SceneNames |-> 0], current_scene |-> 0,
     previous_scene_name |-> "image_acquisition", created |-> 0,
     switched |-> NULL]

IdleApp ==
    /\ pscene = NewProcessingScene /\ cam = NewCameraThread
    /\ stage = NewStageController /\ sm = NewStatemachine

\* the worker of the processing scene before a batch is started
NoBatch ==
    [state |-> "idle", image_paths |-> <<>>, i |-> 0, outputs |-> <<>>,
     data_outputs |-> <<>>, errors |-> <<>>, progress |-> 0]

InitCanvas ==
    /\ canvas = DefaultCanvas /\ lastOp = NoOp /\ batch = NoBatch /\ IdleApp
    /\ doc = NoPipeline /\ cur = NoPipeline /\ exec = "none" /\ order = <<>>
    /\ ctorRaised = FALSE /\ last = [img |-> None, ret |-> NoEntry,
                                     results |-> <<>>, calls |-> <<>>]
    /\ firstRet = <<>>

NextCanvas ==
    \/ AddNodeFromTemplate \/ AddAlgorithmNode \/ AddConnection
    \/ DeleteSelectedNodes \/ RightClickNode \/ LoadPipeline \/ LoadUndecodable

SpecCanvas == InitCanvas /\ [][NextCanvas]_vars

(***************************************************************************)
(* State machine.                                                          *)
(***************************************************************************)
Images == {Img(100, 3), Img(200, 3), Img(200, 1)}
NoRun == [img |-> None, ret |-> NoEntry, results |-> <<>>, calls |-> <<>>]

Docs == OrderDocs \cup ExecDocs

Init ==
    /\ doc \in Docs
    /\ cur = doc
    /\ exec = "none"
    /\ order = <<>>
    /\ ctorRaised = FALSE
    /\ last = NoRun
    /\ firstRet = [i \in Images |-> NoEntry]
    /\ canvas = DefaultCanvas /\ lastOp = NoOp /\ batch = NoBatch /\ IdleApp

\* PipelineExecutor(pipeline_data) of src/pipeline_execution.py
ConstructDfs ==
    /\ exec = "none"
    /\ \E r \in {compute_execution_order(doc)} :
          /\ ctorRaised' = r.raised
          /\ order' = r.order
    /\ exec' = "dfs"
    /\ UNCHANGED <<doc, cur, last, firstRet, canvas, lastOp, batch, appVars>>

\* PipelineExecutor(pipeline_data) of src/src/windows/processing_panel.py
ConstructBfs ==
    /\ exec = "none"
    /\ order' = build_execution_order(doc)
    /\ ctorRaised' = FALSE
    /\ exec' = "bfs"
    /\ UNCHANGED <<doc, cur, last, firstRet, canvas, lastOp, batch, appVars>>

\* executor.execute(img) of src/pipeline_execution.py; the node dictionaries
\* of pipeline_data are the executor's own, so cur keeps what execute wrote
ExecuteDfs ==
    /\ exec = "dfs" /\ ~ctorRaised
    /\ \E img \in Images :
          \E r \in {DfsExecute(cur, order, img)} :
             /\ cur' = r.doc
             /\ last' = [img |-> img, ret |-> r.ret, results |-> r.results,
                         calls |-> r.calls]
             /\ firstRet' = IF firstRet[img] = NoEntry
                            THEN [firstRet EXCEPT ![img] = r.ret]
                            ELSE firstRet
    /\ UNCHANGED <<doc, exec, order, ctorRaised, canvas, lastOp, batch, appVars>>

\* executor.execute(img) of src/src/windows/processing_panel.py
ExecuteBfs ==
    /\ exec = "bfs"
    /\ \E img \in Images :
          \E r \in {BfsExecute(cur, order, img)} :
             /\ cur' = r.doc
             /\ last' = [img |-> img, ret |-> r.ret, results |-> r.results,
                         calls |-> r.calls]
             /\ firstRet' = IF firstRet[img] = NoEntry
                            THEN [firstRet EXCEPT ![img] = r.ret]
                            ELSE firstRet
    /\ UNCHANGED <<doc, exec, order, ctorRaised, canvas, lastOp, batch, appVars>>

Next == ConstructDfs \/ ConstructBfs \/ ExecuteDfs \/ ExecuteBfs

Spec == Init /\ [][Next]_vars

(***************************************************************************)
(* Documents without an Input node, without an Output node, or without     *)
(* both, handed to the two executors.                                      *)
(***************************************************************************)
IncompleteNodes ==
    {<<AddNode("A", 5), AddNode("B", 7), OutputNode("O")>>,
     <<InputNode("I"), AddNode("A", 5), AddNode("B", 7)>>,
     <<AddNode("A", 5), AddNode("B", 7)>>}

IncompleteDocs ==
    {[nodes |-> ns,
      connections |-> [i \in DOMAIN s |-> Conn(s[i][1], s[i][2], tp, "image")]]
     : <<ns, s, tp>> \in
         {x \in IncompleteNodes \X SeqsUpTo(OrderEdges, MaxOrderConns) \X Dialects :
            \A i \in DOMAIN x[2] :
               \A j \in 1..2 : \E k \in DOMAIN x[1] : x[1][k].id = x[2][i][j]}}

InitIncomplete ==
    /\ doc \in IncompleteDocs
    /\ cur = doc
    /\ exec = "none"
    /\ order = <<>>
    /\ ctorRaised = FALSE
    /\ last = NoRun
    /\ firstRet = [i \in Images |-> NoEntry]
    /\ canvas = DefaultCanvas /\ lastOp = NoOp /\ batch = NoBatch /\ IdleApp

SpecIncomplete == InitIncomplete /\ [][Next]_vars

(***************************************************************************)
(* Batch mode: process_images and _process_images_thread of                *)
(* src/src/scenes/processing_scene.py.  The worker holds one dfs executor  *)
(* for all images of the batch.                                            *)
(***************************************************************************)
MaxBatch == 2

\* an image file that image.load cannot read
Unreadable == <<"unreadable", 0, 0>>
\* surfarray.array3d yields three channels for every file that loads
ImageFiles == {Img(100, 3), Img(200, 3), Unreadable}

BatchDoc(a, conns) ==
    [nodes |-> <<InputNode("I"), a, AddNode("B", 5), OutputNode("O")>>,
     connections |-> conns]

\* pipelines of the batch: an image result, an image with data, the data of
\* a node as the image of Output, no connection, a connection from a node
\* that does not exist
BatchDocs ==
    {BatchDoc(AddNode("A", 7), <<Conn("I", "A", NULL, "image"),
                                 Conn("A", "O", NULL, "image")>>),
     BatchDoc(ObjCharNode("A"), <<Conn("I", "A", NULL, "image"),
                                  Conn("A", "O", NULL, "image"),
                                  Conn("A", "O", "data", "data")>>),
     BatchDoc(ObjCharNode("A"), <<Conn("I", "A", NULL, "image"),
                                  Conn("A", "O", NULL, "data")>>),
     BatchDoc(AddNode("A", 7), <<>>),
     BatchDoc(AddNode("A", 7), <<Conn("I", "A", NULL, "image"),
                                 Conn("X", "O", NULL, "image")>>)}

BatchLists == UNION {[1..n -> ImageFiles] : n \in 1..MaxBatch}

\* result.get("image") / result, and result.get("data") / None
OutputArray(result) == IF result.isdict THEN result.d["image"] ELSE result.v
DataOutput(result) == IF result.isdict THEN result.d["data"] ELSE None

\* np.transpose(output_array, (1, 0, 2)) and surfarray.make_surface succeed
\* on an array of three channels
IsSurface(output_array) == IsImg(output_array) /\ output_array[3] = 3

DataRecord(image_paths, i, data) ==
    [image_name |-> image_paths[i], image_index |-> i - 1, data |-> data]

\* variant: the except branch records nothing for the image
OnExceptionSkip(b) == [b EXCEPT !.i = @ + 1, !.errors = Append(@, TRUE)]

\* the except branch of the loop body
OnException(b) ==
    [b EXCEPT !.i = @ + 1,
              !.errors = Append(@, TRUE),
              !.outputs = Append(@, None),
              !.data_outputs = Append(@, DataRecord(b.image_paths, b.i, None))]

\* the try branch after executor.execute returned result
OnResult(b, result) ==
    IF OutputArray(result) # None /\ ~IsSurface(OutputArray(result))
    THEN OnException(b)
    ELSE [b EXCEPT !.i = @ + 1,
                   !.errors = Append(@, FALSE),
                   !.outputs = Append(@, OutputArray(result)),
                   !.data_outputs =
                       Append(@, DataRecord(b.image_paths, b.i, DataOutput(result))),
                   !.progress = @ + 1]

\* process_images starts the worker; the worker constructs the executor
\* before its loop, outside every try: when the constructor raises the
\* thread ends without a COMPLETE message
StartBatch ==
    /\ batch.state = "idle" /\ exec = "none"
    /\ \E image_paths \in BatchLists : \E r \in {compute_execution_order(doc)} :
          /\ ctorRaised' = r.raised
          /\ order' = r.order
          /\ batch' = [batch EXCEPT !.state = IF r.raised THEN "dead" ELSE "running",
                                    !.image_paths = image_paths, !.i = 1]
    /\ exec' = "dfs"
    /\ UNCHANGED <<doc, cur, last, firstRet, canvasVars, appVars>>

\* one pass of the loop body
ProcessImage ==
    /\ batch.state = "running" /\ batch.i <= Len(batch.image_paths)
    /\ IF batch.image_paths[batch.i] = Unreadable
       THEN /\ batch' = OnException(batch)
            /\ UNCHANGED <<cur, last>>
       ELSE \E r \in {DfsExecute(cur, order, batch.image_paths[batch.i])} :
               /\ cur' = r.doc
               /\ last' = [img |-> batch.image_paths[batch.i], ret |-> r.ret,
                           results |-> r.results, calls |-> r.calls]
               /\ batch' = OnResult(batch, r.ret)
    /\ UNCHANGED <<doc, exec, order, ctorRaised, firstRet, canvasVars, appVars>>

\* the COMPLETE message after the loop
CompleteBatch ==
    /\ batch.state = "running" /\ batch.i > Len(batch.image_paths)
    /\ batch' = [batch EXCEPT !.state = "complete"]
    /\ UNCHANGED <<execVars, canvasVars, appVars>>

InitBatch ==
    /\ doc \in BatchDocs
    /\ cur = doc
    /\ exec = "none" /\ order = <<>> /\ ctorRaised = FALSE
    /\ last = NoRun
    /\ firstRet = [img \in Images |-> NoEntry]
    /\ canvas = DefaultCanvas /\ lastOp = NoOp /\ batch = NoBatch /\ IdleApp

NextBatch == StartBatch \/ ProcessImage \/ CompleteBatch

SpecBatch == InitBatch /\ [][NextBatch]_vars

(***************************************************************************)
(* The processing scene: process_images, the worker threads it starts, the *)
(* processing queue and the frame update of the owning thread.  The        *)
(* control panel is src/windows/processing_panel.py.                       *)
(***************************************************************************)
MaxStarts == 2

SceneFiles == {NoFile, UndecodableFile} \cup {PipelineFile(d) : d \in BatchDocs}
\* what file_viewer.get_selected_files returns
SceneSelections == {<<>>, <<Img(100, 3)>>, <<Unreadable, Img(200, 3)>>}

ProgressMessage(current, total) ==
    [type |-> "progress", current |-> current, total |-> total,
     outputs |-> <<>>, data_outputs |-> <<>>]
CompleteMessage(outputs, data_outputs) ==
    [type |-> "complete", current |-> 0, total |-> 0,
     outputs |-> outputs, data_outputs |-> data_outputs]

\* ProcessingControlPanel.set_image_count
set_image_count(s, count) == [s EXCEPT !.enabled = (count # 0)]

\* ProcessingControlPanel.set_processing
set_processing(s, active, progress, total) ==
    [s EXCEPT !.processing = active, !.progress = progress,
              !.total_images = total, !.enabled = ~active]

\* _update_selected_images with the files the viewer reports
update_selected_images(s, current_images) ==
    IF current_images # s.selected_images
    THEN set_image_count([s EXCEPT !.selected_images = current_images],
                         Len(current_images))
    ELSE s

\* one message of _process_queue_messages
HandleMessage(s, msg) ==
    IF msg.type = "progress"
    THEN set_processing(s, TRUE, msg.current, msg.total)
    ELSE [set_processing(s, FALSE, 0, 0)
             EXCEPT !.output_images = msg.outputs,
                    !.output_data = msg.data_outputs]

\* _process_queue_messages: get_nowait until the queue is empty
process_queue_messages(s) ==
    LET F[i \in 0..Len(s.processing_queue)] ==
            IF i = 0 THEN s ELSE HandleMessage(F[i-1], s.processing_queue[i])
    IN [F[Len(s.processing_queue)] EXCEPT !.processing_queue = <<>>]

\* the worker thread that process_images starts, before it has run
NewThread(image_paths, pipeline_data) ==
    [state |-> "started", image_paths |-> image_paths, i |-> 1,
     outputs |-> <<>>, data_outputs |-> <<>>, errors |-> <<>>, progress |-> 0,
     cur |-> pipeline_data, order |-> <<>>]

\* process_images
process_images(s) ==
    IF s.selected_images = <<>> \/ s.selected_pipeline.kind # "document"
    THEN s
    ELSE [set_processing(s, TRUE, 0, Len(s.selected_images))
             EXCEPT !.threads =
                 Append(@, NewThread(s.selected_images, s.selected_pipeline.data))]

Alive(t) == t.state \in {"started", "running"}

SceneRest == <<execVars, canvasVars, batch, cam, stage, sm>>

\* update of the scene, once per frame
UpdateScene ==
    /\ \E current_images \in SceneSelections :
          pscene' = process_queue_messages(
                        update_selected_images(pscene, current_images))
    /\ UNCHANGED SceneRest

\* a click on the Process button; a disabled button ignores it
PressProcess ==
    /\ pscene.enabled /\ Len(pscene.threads) < MaxStarts
    /\ pscene' = process_images(pscene)
    /\ UNCHANGED SceneRest

\* _process_images_thread up to its loop: PipelineExecutor(pipeline_data)
\* stands outside every try, an exception ends the thread
ThreadConstruct ==
    /\ \E k \in DOMAIN pscene.threads :
          /\ pscene.threads[k].state = "started"
          /\ \E r \in {compute_execution_order(pscene.threads[k].cur)} :
                pscene' = [pscene EXCEPT
                    !.threads[k].state = IF r.raised THEN "dead" ELSE "running",
                    !.threads[k].order = r.order]
    /\ UNCHANGED SceneRest

\* the loop body for one image, with its PROGRESS message
ThreadImageResult(t) ==
    IF t.image_paths[t.i] = Unreadable
    THEN OnException(t)
    ELSE [OnResult(t, DfsExecute(t.cur, t.order, t.image_paths[t.i]).ret)
             EXCEPT !.cur = DfsExecute(t.cur, t.order, t.image_paths[t.i]).doc]

ThreadProcessImage ==
    /\ \E k \in DOMAIN pscene.threads :
          /\ pscene.threads[k].state = "running"
          /\ pscene.threads[k].i <= Len(pscene.threads[k].image_paths)
          /\ \E t \in {ThreadImageResult(pscene.threads[k])} :
                pscene' = [pscene EXCEPT
                    !.threads[k] = t,
                    !.processing_queue =
                        IF t.errors[Len(t.errors)] THEN @
                        ELSE Append(@, ProgressMessage(t.i - 1, Len(t.image_paths)))]
    /\ UNCHANGED SceneRest

\* the COMPLETE message after the loop; the thread ends
ThreadComplete ==
    /\ \E k \in DOMAIN pscene.threads :
          /\ pscene.threads[k].state = "running"
          /\ pscene.threads[k].i > Len(pscene.threads[k].image_paths)
          /\ pscene' = [pscene EXCEPT
                !.threads[k].state = "complete",
                !.processing_queue =
                    Append(@, CompleteMessage(pscene.threads[k].outputs,
                                              pscene.threads[k].data_outputs))]
    /\ UNCHANGED SceneRest

IdlePipeline ==
    /\ doc = NoPipeline /\ cur = NoPipeline /\ exec = "none" /\ order = <<>>
    /\ ctorRaised = FALSE /\ last = NoRun /\ firstRet = <<>>
    /\ canvas = DefaultCanvas /\ lastOp = NoOp /\ batch = NoBatch

\* the scene with a pipeline selected in the pipeline viewer
InitScene ==
    /\ \E f \in SceneFiles :
          pscene = [NewProcessingScene EXCEPT !.selected_pipeline = f]
    /\ cam = NewCameraThread /\ stage = NewStageController /\ sm = NewStatemachine
    /\ IdlePipeline

NextScene ==
    UpdateScene \/ PressProcess \/ ThreadConstruct \/ ThreadProcessImage
    \/ ThreadComplete

SpecScene == InitScene /\ [][NextScene]_vars

\* the enabling conditions of the three steps of a thread
CanConstruct ==
    \E k \in DOMAIN pscene.threads : pscene.threads[k].state = "started"
CanProcessImage ==
    \E k \in DOMAIN pscene.threads :
        /\ pscene.threads[k].state = "running"
        /\ pscene.threads[k].i <= Len(pscene.threads[k].image_paths)
CanComplete ==
    \E k \in DOMAIN pscene.threads :
        /\ pscene.threads[k].state = "running"
        /\ pscene.threads[k].i > Len(pscene.threads[k].image_paths)

\* the owning thread keeps polling and the scheduler runs every started
\* thread: weak fairness of the update and of each step of a thread, the
\* latter with the enabling condition written out
SpecSceneFair ==
    /\ SpecScene
    /\ WF_vars(UpdateScene)
    /\ ([]<>(~CanConstruct) \/ []<><<ThreadConstruct>>_vars)
    /\ ([]<>(~CanProcessImage) \/ []<><<ThreadProcessImage>>_vars)
    /\ ([]<>(~CanComplete) \/ []<><<ThreadComplete>>_vars)

(***************************************************************************)
(* Documents with cycles and with embedded pipelines nested in each other, *)
(* handed to the two executors.                                            *)
(***************************************************************************)
MaxNesting == 2

\* an embedded pipeline that holds k - 1 further embedded pipelines
RECURSIVE NestedOf(_, _)
NestedOf(dialect, k) ==
    IF k <= 1 THEN Nested(dialect)
    ELSE [nodes |-> <<InputNode("i"), AlgoNode("n", NestedOf(dialect, k - 1)),
                      OutputNode("o")>>,
          connections |-> <<Conn("i", "n", dialect, "image"),
                            Conn("n", "o", dialect, "image")>>]

\* an embedded pipeline with a cycle between its two process nodes
NestedCycle(dialect) ==
    [nodes |-> <<InputNode("i"), ProcNode(dialect, "n", 3),
                 ProcNode(dialect, "m", 4), OutputNode("o")>>,
     connections |-> <<Conn("i", "n", dialect, "image"),
                       Conn("n", "m", dialect, "image"),
                       Conn("m", "n", dialect, "image"),
                       Conn("m", "o", dialect, "image")>>]

Embedded(dialect) ==
    {NoPipeline, NestedCycle(dialect)}
        \cup {NestedOf(dialect, k) : k \in 1..MaxNesting}

\* connections of the outer document, with the cycle A -> B -> A
DeepConns(dialect) ==
    <<Conn("I", "A", dialect, "image"),
      Conn("A", "B", dialect, "image"),
      Conn("B", "A", dialect, "image"),
      Conn("B", "O", dialect, "image"),
      Conn("A", "O", dialect, "image")>>

DeepDocs ==
    {[nodes |-> <<InputNode("I"), AlgoNode("A", x[2]),
                  ProcNode(x[1], "B", 5), OutputNode("O")>>,
      connections |-> SubSeqOf(DeepConns(x[1]), x[3])]
     : x \in {y \in Dialects \X (Embedded(NULL) \cup Embedded("image"))
                     \X SUBSET (1..5) : y[2] \in Embedded(y[1])}}

InitNested ==
    /\ doc \in DeepDocs
    /\ cur = doc
    /\ exec = "none"
    /\ order = <<>>
    /\ ctorRaised = FALSE
    /\ last = NoRun
    /\ firstRet = [i \in Images |-> NoEntry]
    /\ canvas = DefaultCanvas /\ lastOp = NoOp /\ batch = NoBatch /\ IdleApp

SpecNested == InitNested /\ [][Next]_vars

(***************************************************************************)
(* CameraThread of src/camera.py: the capture thread, one statement of     *)
(* _capture_loop at a time, interleaved with the callers of get_frame,     *)
(* start and stop.  Frames are numbered in the order of their capture.     *)
(***************************************************************************)
MaxFrames == 4
QueueMaxsize == 2

CamRest == <<execVars, canvasVars, batch, pscene, stage, sm>>

\* start (lines 36-46)
StartCamera ==
    /\ ~cam.is_running
    /\ cam.pc \in {"none", "ended"}
    /\ cam' = [cam EXCEPT !.stop_event = FALSE, !.is_running = TRUE,
                          !.pc = "loop"]
    /\ UNCHANGED CamRest

\* while not self._stop_event.is_set(), the capture of a frame and
\* make_surface (lines 116-125)
CaptureFrame ==
    /\ cam.pc = "loop"
    /\ ~cam.stop_event
    /\ cam.captured < MaxFrames
    /\ cam' = [cam EXCEPT !.captured = @ + 1, !.surface = cam.captured + 1,
                          !.pc = "put"]
    /\ UNCHANGED CamRest

\* self._frame_queue.put_nowait(surface) (lines 126-128)
PutFrame ==
    /\ cam.pc = "put"
    /\ cam' = IF Len(cam.frame_queue) < QueueMaxsize
              THEN [cam EXCEPT !.frame_queue = Append(@, cam.surface),
                               !.enqueued = @ \cup {cam.surface},
                               !.pc = "loop"]
              ELSE [cam EXCEPT !.pc = "full"]
    /\ UNCHANGED CamRest

\* except Full: self._frame_queue.get_nowait(), except Empty: pass
\* (lines 128-133)
DiscardOldest ==
    /\ cam.pc = "full"
    /\ cam' = IF cam.frame_queue # <<>>
              THEN [cam EXCEPT !.frame_queue = Tail(@),
                               !.discarded = @ \cup {Head(cam.frame_queue)},
                               !.pc = "put_again"]
              ELSE [cam EXCEPT !.lost = @ \cup {cam.surface}, !.pc = "loop"]
    /\ UNCHANGED CamRest

\* the second self._frame_queue.put_nowait(surface) (line 131); the capture
\* thread is the only producer, so that the queue has room
PutFrameAgain ==
    /\ cam.pc = "put_again"
    /\ cam' = [cam EXCEPT !.frame_queue = Append(@, cam.surface),
                          !.enqueued = @ \cup {cam.surface},
                          !.pc = "loop"]
    /\ UNCHANGED CamRest

\* the loop condition with the stop event set (lines 116, 151-152)
EndCaptureLoop ==
    /\ cam.pc = "loop"
    /\ cam.stop_event
    /\ cam' = [cam EXCEPT !.pc = "ended"]
    /\ UNCHANGED CamRest

\* get_frame (lines 181-186): the oldest frame of the queue, or None
GetFrame ==
    /\ cam.is_running
    /\ cam' = IF cam.frame_queue # <<>>
              THEN [cam EXCEPT !.frame_queue = Tail(@)]
              ELSE cam
    /\ UNCHANGED CamRest

\* stop (lines 195-205); the join returns when the loop has ended
StopCamera ==
    /\ cam.is_running
    /\ ~cam.stop_event
    /\ cam' = [cam EXCEPT !.stop_event = TRUE]
    /\ UNCHANGED CamRest

StopCameraJoined ==
    /\ cam.is_running
    /\ cam.stop_event
    /\ cam.pc = "ended"
    /\ cam' = [cam EXCEPT !.is_running = FALSE]
    /\ UNCHANGED CamRest

InitCamera == IdlePipeline /\ IdleApp

NextCamera ==
    \/ StartCamera \/ CaptureFrame \/ PutFrame \/ DiscardOldest
    \/ PutFrameAgain \/ EndCaptureLoop \/ GetFrame \/ StopCamera
    \/ StopCameraJoined

SpecCamera == InitCamera /\ [][NextCamera]_vars

(***************************************************************************)
(* StageController of src/src/stage_control.py with one step per           *)
(* millimetre: move_to, home, calibrate and stop called by the control     *)
(* panel (wait=False), and the worker threads, one loop iteration at a     *)
(* time.  An axis is MaxTravel steps long; its negative endstop is         *)
(* triggered at 0 and its positive endstop at MaxTravel.                   *)
(***************************************************************************)
MaxTravel == 1
MaxWorkers == 2
\* the steps that one measuring loop is followed for; another worker that
\* drives the same axis back can keep the loop running without end
MaxMeasured == 2

Axes == 1..3
StageRest == <<execVars, canvasVars, batch, pscene, cam, sm>>

\* _check_endstop
check_endstop(axis, positive) ==
    IF positive THEN stage.at[axis] = MaxTravel ELSE stage.at[axis] = 0

Sgn(n) == IF n > 0 THEN 1 ELSE IF n < 0 THEN 0 - 1 ELSE 0
AbsVal(n) == IF n < 0 THEN 0 - n ELSE n
Larger(a, b) == IF a > b THEN a ELSE b

\* a worker thread before its first statement
NewWorker(kind, target) ==
    [kind |-> kind, pc |-> IF kind = "move" THEN "move_xy" ELSE "home_xy",
     target |-> target, steps |-> <<0, 0, 0>>, step |-> 0,
     x_homed |-> FALSE, y_homed |-> FALSE, seen |-> {}, zeroed |-> FALSE,
     axis |-> 1]

WorkerAlive(t) == t.pc # "done"

\* a worker thread that has returned: what it saw and did is kept
Ended(t) ==
    [NewWorker(t.kind, <<0, 0, 0>>) EXCEPT !.pc = "done", !.seen = t.seen,
                                          !.zeroed = t.zeroed]

MoveTargets == {<<0, 0, 0>>, <<MaxTravel, 0, MaxTravel>>}

\* move_to, home and calibrate (lines 86-118, 224-240, 306-323)
StartWorker(kind, target) ==
    /\ ~stage.is_moving
    /\ stage.stopper = "idle"
    /\ Len(stage.threads) < MaxWorkers
    /\ stage' = [stage EXCEPT !.is_moving = TRUE, !.stop_move = FALSE,
                              !.threads = Append(@, NewWorker(kind, target))]
    /\ UNCHANGED StageRest

move_to == \E target \in MoveTargets : StartWorker("move", target)
home == StartWorker("home", <<0, 0, 0>>)
calibrate == StartWorker("calibrate", <<0, 0, 0>>)

\* one axis of a step of a move loop: the step is made unless the endstop in
\* the direction of the move is triggered
MoveAxis(st, axis, dir) ==
    IF (dir > 0 /\ st.at[axis] = MaxTravel) \/ (dir < 0 /\ st.at[axis] = 0)
    THEN st
    ELSE [st EXCEPT !.at[axis] = @ + dir, !.position[axis] = @ + dir]

\* _move_xy up to its loop (lines 144-159)
MoveXYBegin(k) ==
    /\ stage.threads[k].pc = "move_xy"
    /\ stage' = [stage EXCEPT
           !.threads[k].steps[1] = stage.threads[k].target[1] - stage.position[1],
           !.threads[k].steps[2] = stage.threads[k].target[2] - stage.position[2],
           !.threads[k].step = 0,
           !.threads[k].pc =
               IF stage.threads[k].target[1] = stage.position[1]
                  /\ stage.threads[k].target[2] = stage.position[2]
               THEN "move_z" ELSE "move_xy_loop"]
    /\ UNCHANGED StageRest

\* one iteration of the loop of _move_xy (lines 160-180)
MoveXYStepped(t) ==
    LET afterX == IF t.step < AbsVal(t.steps[1])
                  THEN MoveAxis(stage, 1, Sgn(t.steps[1])) ELSE stage
    IN IF t.step < AbsVal(t.steps[2])
       THEN MoveAxis(afterX, 2, Sgn(t.steps[2])) ELSE afterX

MoveXYLoop(k) ==
    /\ stage.threads[k].pc = "move_xy_loop"
    /\ stage' =
         IF stage.stop_move
            \/ stage.threads[k].step
                 >= Larger(AbsVal(stage.threads[k].steps[1]),
                           AbsVal(stage.threads[k].steps[2]))
         THEN [stage EXCEPT !.threads[k].pc = "move_z"]
         ELSE [MoveXYStepped(stage.threads[k]) EXCEPT !.threads[k].step = @ + 1]
    /\ UNCHANGED StageRest

\* _move_z up to its loop (lines 191-199)
MoveZBegin(k) ==
    /\ stage.threads[k].pc = "move_z"
    /\ stage' = [stage EXCEPT
           !.threads[k].steps[3] = stage.threads[k].target[3] - stage.position[3],
           !.threads[k].step = 0,
           !.threads[k].pc =
               IF stage.threads[k].target[3] = stage.position[3]
               THEN "finally" ELSE "move_z_loop"]
    /\ UNCHANGED StageRest

\* one iteration of the loop of _move_z (lines 200-211)
MoveZLoop(k) ==
    /\ stage.threads[k].pc = "move_z_loop"
    /\ stage' =
         IF stage.stop_move
            \/ stage.threads[k].step >= AbsVal(stage.threads[k].steps[3])
         THEN [stage EXCEPT !.threads[k].pc = "finally"]
         ELSE [MoveAxis(stage, 3, Sgn(stage.threads[k].steps[3]))
                   EXCEPT !.threads[k].step = @ + 1]
    /\ UNCHANGED StageRest

\* one axis of an iteration of the loop of _home_xy (lines 265-283): the
\* endstop is seen, or the motor makes a step towards it
HomeAxis(st, k, axis, homed) ==
    IF homed THEN st
    ELSE IF st.at[axis] = 0
         THEN IF axis = 1
              THEN [st EXCEPT !.threads[k].x_homed = TRUE,
                              !.threads[k].seen = @ \cup {1}]
              ELSE [st EXCEPT !.threads[k].y_homed = TRUE,
                              !.threads[k].seen = @ \cup {2}]
         ELSE [st EXCEPT !.at[axis] = @ - 1]

\* _home_xy, one iteration of its loop (lines 259-286)
HomeXYLoop(k) ==
    /\ stage.threads[k].pc = "home_xy"
    /\ stage' =
         IF (stage.threads[k].x_homed /\ stage.threads[k].y_homed)
            \/ stage.stop_move
         THEN [stage EXCEPT !.threads[k].pc = "home_z"]
         ELSE HomeAxis(HomeAxis(stage, k, 1, stage.threads[k].x_homed),
                       k, 2, stage.threads[k].y_homed)
    /\ UNCHANGED StageRest

\* _home_z, one iteration of its loop (lines 288-298)
HomeZLoop(k) ==
    /\ stage.threads[k].pc = "home_z"
    /\ stage' =
         IF check_endstop(3, FALSE)
         THEN [stage EXCEPT !.threads[k].seen = @ \cup {3},
                            !.threads[k].pc = "zero"]
         ELSE IF stage.stop_move
              THEN [stage EXCEPT !.threads[k].pc = "zero"]
              ELSE [stage EXCEPT !.at[3] = @ - 1]
    /\ UNCHANGED StageRest

\* _execute_home after the two homing functions (lines 247-249)
HomeZero(k) ==
    /\ stage.threads[k].pc = "zero"
    /\ stage' = [stage EXCEPT !.position = <<0, 0, 0>>,
                              !.threads[k].zeroed = TRUE,
                              !.threads[k].pc = "finally"]
    /\ UNCHANGED StageRest

\* the finally block of _execute_move and of _execute_home (lines 132-135,
\* 253-256); _execute_calibrate goes on after the one of _execute_home
\* that it calls (lines 328-329)
Finally(k) ==
    /\ stage.threads[k].pc = "finally"
    /\ stage' = [stage EXCEPT
           !.is_moving = FALSE,
           !.threads[k] =
               IF stage.threads[k].kind = "calibrate"
               THEN [@ EXCEPT !.axis = 1, !.step = 0, !.pc = "measure_up"]
               ELSE Ended(@)]
    /\ UNCHANGED StageRest

\* _measure_axis_range, one iteration of its first loop, and the assignment
\* of the range after it (lines 360-371)
MeasureUp(k) ==
    /\ stage.threads[k].pc = "measure_up"
    /\ stage' =
         IF check_endstop(stage.threads[k].axis, TRUE) \/ stage.stop_move
         THEN [stage EXCEPT
                  !.position[stage.threads[k].axis] = stage.threads[k].step,
                  !.threads[k].steps[stage.threads[k].axis] = stage.threads[k].step,
                  !.threads[k].pc = "measure_down"]
         ELSE [stage EXCEPT !.at[stage.threads[k].axis] = @ + 1,
                            !.threads[k].step = @ + 1]
    /\ stage'.threads[k].step <= MaxMeasured
    /\ UNCHANGED StageRest

\* _measure_axis_range, one iteration of its second loop, and the
\* assignment of 0 after it (lines 372-383)
MeasureDown(k) ==
    /\ stage.threads[k].pc = "measure_down"
    /\ stage' =
         IF stage.threads[k].step = 0 \/ stage.stop_move
         THEN [stage EXCEPT
                  !.position[stage.threads[k].axis] = 0,
                  !.threads[k].step = 0,
                  !.threads[k].axis = IF @ < 3 THEN @ + 1 ELSE @,
                  !.threads[k].pc = IF stage.threads[k].axis < 3
                                    THEN "measure_up" ELSE "cal_finally"]
         ELSE [stage EXCEPT
                  !.at[stage.threads[k].axis] = IF @ > 0 THEN @ - 1 ELSE @,
                  !.threads[k].step = @ - 1]
    /\ UNCHANGED StageRest

\* the end of _execute_calibrate (lines 336-347)
CalibrateFinally(k) ==
    /\ stage.threads[k].pc = "cal_finally"
    /\ stage' = [stage EXCEPT !.position = <<0, 0, 0>>,
                              !.is_moving = FALSE,
                              !.threads[k] = Ended(@)]
    /\ UNCHANGED StageRest

\* stop (lines 432-439): the event is set, and the join returns when the
\* worker has ended or after its timeout of 2 seconds
StopSet ==
    /\ stage.stopper = "idle"
    /\ stage' = [stage EXCEPT !.stop_move = TRUE, !.stopper = "join"]
    /\ UNCHANGED StageRest

StopReturn ==
    /\ stage.stopper = "join"
    /\ stage' = [stage EXCEPT
           !.is_moving = FALSE, !.stopper = "idle",
           !.timed_out = @ \/ \E k \in DOMAIN stage.threads :
                                   WorkerAlive(stage.threads[k])]
    /\ UNCHANGED StageRest

\* where the carriage is when the program starts
StartPlaces == {<<0, 0, 0>>, <<MaxTravel, 0, MaxTravel>>,
                <<MaxTravel, MaxTravel, MaxTravel>>}

InitStage ==
    /\ IdlePipeline
    /\ pscene = NewProcessingScene /\ cam = NewCameraThread
    /\ sm = NewStatemachine
    /\ \E a \in StartPlaces : stage = [NewStageController EXCEPT !.at = a]

Workers == DOMAIN stage.threads

NextStage ==
    \/ move_to \/ home \/ calibrate \/ StopSet \/ StopReturn
    \/ \E k \in Workers : MoveXYBegin(k)
    \/ \E k \in Workers : MoveXYLoop(k)
    \/ \E k \in Workers : MoveZBegin(k)
    \/ \E k \in Workers : MoveZLoop(k)
    \/ \E k \in Workers : HomeXYLoop(k)
    \/ \E k \in Workers : HomeZLoop(k)
    \/ \E k \in Workers : HomeZero(k)
    \/ \E k \in Workers : Finally(k)
    \/ \E k \in Workers : MeasureUp(k)
    \/ \E k \in Workers : MeasureDown(k)
    \/ \E k \in Workers : CalibrateFinally(k)

SpecStage == InitStage /\ [][NextStage]_vars

(***************************************************************************)
(* Statemachine of src/src/statemachine.py: switch_scene called by the     *)
(* menu bar and by main, and the display callback of the settings scene.   *)
(***************************************************************************)
MaxScenes == 5

MachineRest == <<execVars, canvasVars, batch, pscene, cam, stage>>

\* the name that the current scene is registered under (lines 63-66), or
\* the previous name when it is registered under none
NameOfCurrent(m) ==
    IF \E n \in SceneNames : m.scenes[n] = m.current_scene
    THEN CHOOSE n \in SceneNames : m.scenes[n] = m.current_scene
    ELSE m.previous_scene_name

\* set_current_scene (lines 102-106)
set_current_scene(m, new_scene_name) ==
    IF m.scenes[new_scene_name] # 0
    THEN [m EXCEPT !.current_scene = m.scenes[new_scene_name]]
    ELSE m

\* switch_scene for the names of the menu bar (lines 58-100)
switch_scene(m, new_scene_name) ==
    set_current_scene(
        IF m.current_scene # 0 /\ new_scene_name = "settings"
        THEN [m EXCEPT !.previous_scene_name = NameOfCurrent(m),
                       !.switched = new_scene_name]
        ELSE IF m.scenes[new_scene_name] = 0
             THEN [m EXCEPT !.scenes[new_scene_name] = m.created + 1,
                            !.created = @ + 1,
                            !.switched = new_scene_name]
             ELSE [m EXCEPT !.switched = new_scene_name],
        new_scene_name)

SwitchScene ==
    /\ \E name \in SceneNames :
          /\ sm' = switch_scene(sm, name)
          /\ sm'.created <= MaxScenes
    /\ UNCHANGED MachineRest

\* _on_display_settings_changed (lines 26-33), called by the settings scene
DisplaySettingsChanged ==
    /\ sm.scenes["settings"] # 0
    /\ sm.current_scene = sm.scenes["settings"]
    /\ sm' = switch_scene([sm EXCEPT !.scenes = [n \in SceneNames |-> 0]],
                          "settings")
    /\ sm'.created <= MaxScenes
    /\ UNCHANGED MachineRest

InitMachine == IdlePipeline /\ IdleApp

NextMachine == SwitchScene \/ DisplaySettingsChanged

SpecMachine == InitMachine /\ [][NextMachine]_vars

(***************************************************************************)
(* Documents with a process node whose name is no operator of either       *)
(* executor, handed to the two executors.                                  *)
(***************************************************************************)
UnknownNode(id) == Node(id, "process", "Unknown", EmptyDict, NoPipeline)

UnknownDocs ==
    {[nodes |-> <<InputNode("I"), UnknownNode("A"), ProcNode(x[1], "B", 5),
                  OutputNode("O")>>,
      connections |-> SubSeqOf(ExecConns(x[1]), x[2])]
     : x \in Dialects \X {K \in SUBSET (1..11) : Cardinality(K) <= MaxExecConns}}

InitUnknown ==
    /\ doc \in UnknownDocs
    /\ cur = doc
    /\ exec = "none"
    /\ order = <<>>
    /\ ctorRaised = FALSE
    /\ last = NoRun
    /\ firstRet = [i \in Images |-> NoEntry]
    /\ canvas = DefaultCanvas /\ lastOp = NoOp /\ batch = NoBatch /\ IdleApp

SpecUnknown == InitUnknown /\ [][Next]_vars

(***************************************************************************)
(* Properties.                                                             *)
(***************************************************************************)
Ran == last # NoRun
WellFormed(d) == ~Cyclic(d) /\ ~Dangling(d)
TypeOf(d, id) == d.nodes[NodeIdx(d, id)].node_type
Before(a, b) == IndexOf(order, a) # 0 /\ IndexOf(order, a) < IndexOf(order, b)

\* C1: for an acyclic document, the order computed by
\* _compute_execution_order contains the source of every connection at a
\* strictly smaller index than its target.
C1_DfsOrderTopological ==
    (exec = "dfs" /\ WellFormed(doc)) =>
        \A i \in DOMAIN doc.connections :
            Before(doc.connections[i].from_node, doc.connections[i].to_node)

\* C2: for an acyclic document, the order returned by _build_execution_order
\* places the source of every connection before its target, for every order
\* of the connection list and for reconverging paths.
C2_BfsOrderTopological ==
    (exec = "bfs" /\ WellFormed(doc)) =>
        \A i \in DOMAIN doc.connections :
            Before(doc.connections[i].from_node, doc.connections[i].to_node)

\* C3: constructing an executor for a document whose connections form a
\* cycle among process nodes fails with an error instead of yielding an order.
C3_CycleRejected ==
    (exec # "none" /\ Cyclic(doc)) => ctorRaised

ConnsInto(d, n) == {i \in DOMAIN d.connections : d.connections[i].to_node = n}
InOrder(n) == IndexOf(order, n) # 0
IsWorker(d, n) == n \in NodeIds(d) /\ TypeOf(d, n) \in {"process", "algorithm"}
EntryImage(e) ==
    IF e.isdict THEN e.d["image"]
    ELSE IF e \in {NoEntry, RaisedE} THEN None ELSE e.v
EntryData(e) == IF e.isdict THEN e.d["data"] ELSE None
\* the value the finished run holds for connection i of the document
Delivered(i) ==
    ValueOf(ResGet(last.results, doc.connections[i].from_node),
            doc.connections[i].from_output)
OutputId == doc.nodes[FirstOfType(doc, "output")].id

\* C4: for a document as the serializer writes it (main input connection
\* with to_parameter "image"), execute of the batch executor invokes a process
\* node whose upstream image is available, with that image as its input.
C4_SerializedMainInput ==
    (exec = "dfs" /\ Ran) =>
        \A n \in NodeIds(doc) : \A i \in ConnsInto(doc, n) :
            LET c == doc.connections[i]
            IN (/\ TypeOf(doc, n) = "process"
                /\ ConnsInto(doc, n) = {i}
                /\ c.to_parameter = "image" /\ c.from_output = "image"
                /\ Before(c.from_node, n)
                /\ Delivered(i) # None)
               => /\ last.calls[n].called
                  /\ last.calls[n].input = Delivered(i)

\* the pipeline Input -> A -> B -> Output without its Input -> A connection
ChainWithoutFirst(d) ==
    /\ Len(d.connections) = 2
    /\ Edges(d) = {<<"A", "B">>, <<"B", "O">>}
    /\ TypeOf(d, "A") = "process" /\ TypeOf(d, "B") = "process"
    /\ \A i \in DOMAIN d.connections :
          /\ d.connections[i].from_output = "image"
          /\ d.connections[i].to_parameter \in {NULL, "image"}

\* C5: executing Input -> A -> B -> Output without the Input -> A connection
\* leaves A and B without an output and returns a result whose image is None.
C5_CascadingSkip ==
    (Ran /\ ChainWithoutFirst(doc)) =>
        /\ last.ret # RaisedE
        /\ EntryImage(last.ret) = None
        /\ EntryImage(ResGet(last.results, "A")) = None
        /\ EntryImage(ResGet(last.results, "B")) = None

\* the main image input of n has no resolved value: no main connection, or
\* the upstream node has no entry or delivers None
HasNoEntry(m) == ResGet(last.results, m) = NoEntry
DfsMain(n) == {i \in ConnsInto(doc, n) : IsNull(doc.connections[i].to_parameter)}
BfsMain(n) ==
    {i \in ConnsInto(doc, n) : doc.connections[i].to_parameter \in {"image", MISSING}}
Unresolved(n) ==
    IF exec = "dfs"
    THEN \/ DfsMain(n) = {}
         \/ LET i == CHOOSE i \in DfsMain(n) : \A j \in DfsMain(n) : i <= j
                m == doc.connections[i].from_node
            IN \/ HasNoEntry(m)
               \/ Before(m, n) /\ Delivered(i) = None
    ELSE \A i \in BfsMain(n) :
            LET m == doc.connections[i].from_node
            IN \/ HasNoEntry(m)
               \/ Before(m, n) /\ Delivered(i) = None

AllVisited == \A i \in DOMAIN order : last.calls[order[i]].visited

\* a node fed only by the image output of a skipped node is skipped
CascadeHolds ==
    \A n, m \in NodeIds(doc) : \A i \in ConnsInto(doc, n) :
        (/\ IsWorker(doc, n) /\ IsWorker(doc, m) /\ InOrder(n)
         /\ ConnsInto(doc, n) = {i}
         /\ doc.connections[i].from_node = m
         /\ doc.connections[i].from_output = "image"
         /\ Before(m, n) /\ ~last.calls[m].called)
        => ~last.calls[n].called

\* C6 as claimed: a process or algorithm node without a resolved main image
\* creates no entry, its operator is not invoked, the later nodes are still
\* visited, and consumers of a skipped node are skipped.
C6_SkipCreatesNoEntry ==
    (Ran /\ ~Dangling(doc)) =>
        /\ AllVisited
        /\ CascadeHolds
        /\ \A n \in NodeIds(doc) :
              (IsWorker(doc, n) /\ InOrder(n) /\ Unresolved(n))
              => /\ ~last.calls[n].called
                 /\ ResGet(last.results, n) = NoEntry

\* C6 amended: as claimed, except that the breadth-first executor stores an
\* entry for the skipped node, whose image is None; the batch executor stores
\* none.
C6_SkipYieldsNoImage ==
    (Ran /\ ~Dangling(doc)) =>
        /\ AllVisited
        /\ CascadeHolds
        /\ \A n \in NodeIds(doc) :
              (IsWorker(doc, n) /\ InOrder(n) /\ Unresolved(n))
              => /\ ~last.calls[n].called
                 /\ exec = "dfs" => ResGet(last.results, n) = NoEntry
                 /\ exec = "bfs" => /\ ResGet(last.results, n).isdict
                                    /\ EntryImage(ResGet(last.results, n)) = None

\* a run in which a skipped node made its only consumer skip, and the output
\* node was visited after both
C6_Witness ==
    /\ Ran /\ ~Dangling(doc)
    /\ \E n, m \in NodeIds(doc) : \E i \in ConnsInto(doc, n) :
          /\ IsWorker(doc, n) /\ IsWorker(doc, m)
          /\ ConnsInto(doc, n) = {i}
          /\ doc.connections[i].from_node = m
          /\ doc.connections[i].from_output = "image"
          /\ i \in (IF exec = "dfs" THEN DfsMain(n) ELSE BfsMain(n))
          /\ Before(m, n) /\ Before(n, OutputId)
          /\ Unresolved(m) /\ Unresolved(n)
          /\ last.calls[m].visited /\ ~last.calls[m].called
          /\ last.calls[n].visited /\ ~last.calls[n].called
          /\ last.calls[OutputId].visited

ParamPorts == {"Value", "brightness"}
StoredConstant(n, p) == doc.nodes[NodeIdx(doc, n)].parameters[p]

\* C7: a process node with a connection into a named non-image parameter
\* port, whose upstream produced a value on the connected output, is invoked
\* with that value as the parameter; unconnected parameters keep their
\* stored constants.
C7_ParameterOverride ==
    (Ran /\ ~Dangling(doc)) =>
        \A n \in NodeIds(doc) : \A p \in ParamPorts :
            LET P == {i \in ConnsInto(doc, n) : doc.connections[i].to_parameter = p}
            IN (TypeOf(doc, n) = "process" /\ last.calls[n].called) =>
                 /\ P = {} => last.calls[n].params[p] = StoredConstant(n, p)
                 /\ \A i \in P :
                       (/\ P = {i}
                        /\ doc.connections[i].from_output \in Keys
                        /\ Before(doc.connections[i].from_node, n)
                        /\ Delivered(i) # None)
                       => last.calls[n].params[p] = Delivered(i)

\* C8: an exception of a node's operation does not leave execute; the node's
\* entry passes its input through, and the consumer of the node's "image"
\* output is executed on that input.
C8_RaisePassThrough ==
    (Ran /\ ~Dangling(doc)) =>
        /\ last.ret # RaisedE
        /\ \A n \in NodeIds(doc) :
              last.calls[n].raised =>
                /\ EntryImage(ResGet(last.results, n)) = last.calls[n].input
                /\ \A k \in NodeIds(doc) : \A i \in ConnsInto(doc, k) :
                      (/\ IsWorker(doc, k)
                       /\ ConnsInto(doc, k) = {i}
                       /\ doc.connections[i].from_node = n
                       /\ doc.connections[i].from_output = "image"
                       /\ i \in (IF exec = "dfs" THEN DfsMain(k) ELSE BfsMain(k))
                       /\ Before(n, k))
                      => /\ last.calls[k].called
                         /\ last.calls[k].input = last.calls[n].input

OutputEntry == ResGet(last.results, OutputId)
HasOutputEntry ==
    Ran /\ last.ret # RaisedE /\ FirstOfType(doc, "output") # 0
        /\ OutputEntry # NoEntry

\* C9 as claimed: with the output entry's data None the raw image is
\* returned, also when it is None; otherwise the {image, data} structure.
C9_ReturnByOutputEntry ==
    HasOutputEntry =>
        IF EntryData(OutputEntry) = None
        THEN last.ret = RawE(EntryImage(OutputEntry))
        ELSE last.ret = ImageDataE(EntryImage(OutputEntry), EntryData(OutputEntry))

\* the output node has one incoming connection, to its "image" port, from a
\* node that ran before it
SoleImageConn(i) ==
    /\ ConnsInto(doc, OutputId) = {i}
    /\ doc.connections[i].to_parameter = "image"
    /\ doc.connections[i].from_output \in Keys
    /\ Before(doc.connections[i].from_node, OutputId)

\* C9 amended: as claimed, except that the batch executor returns the
\* structure {image: None, data: None} when image and data are both None; the
\* image returned is the value delivered to the output node's "image" port.
C9_ReturnShape ==
    HasOutputEntry =>
        /\ IF EntryData(OutputEntry) # None
           THEN last.ret = ImageDataE(EntryImage(OutputEntry), EntryData(OutputEntry))
           ELSE IF exec = "dfs" /\ EntryImage(OutputEntry) = None
                THEN last.ret = ImageDataE(None, None)
                ELSE last.ret = RawE(EntryImage(OutputEntry))
        /\ \A i \in ConnsInto(doc, OutputId) :
              SoleImageConn(i) => EntryImage(last.ret) = Delivered(i)

\* the batch executor returned {image: None, data: None} for an output node
\* whose sole "image" connection delivered None
C9_Witness ==
    /\ HasOutputEntry /\ exec = "dfs"
    /\ \E i \in ConnsInto(doc, OutputId) : SoleImageConn(i) /\ Delivered(i) = None
    /\ last.ret = ImageDataE(None, None)

\* C10: execute on the same executor and the same image returns the same
\* result, whatever was executed in between.
C10_RunsIndependent ==
    (exec = "dfs" /\ Ran) => last.ret = firstRet[last.img]

\* the embedded pipeline of algorithm node n, and what executing it directly
\* on img with an executor of its own returns
EmbeddedOf(n) == doc.nodes[NodeIdx(doc, n)].pipeline_data
DirectResult(Q, img) ==
    IF exec = "dfs"
    THEN DfsExecute(Q, compute_execution_order(Q).order, img).ret
    ELSE BfsExecute(Q, build_execution_order(Q), img).ret
IsInvokedAlgorithm(n) ==
    /\ TypeOf(doc, n) = "algorithm"
    /\ EmbeddedOf(n) # NoPipeline
    /\ last.calls[n].called

\* C11: an algorithm node that embeds pipeline Q and is invoked with image I
\* has as its "image" output the image, and as its "data" output the data, of
\* the result of executing Q on I with an executor of its own.
C11_AlgorithmEqualsEmbedded ==
    Ran =>
        \A n \in NodeIds(doc) :
            IsInvokedAlgorithm(n) =>
                LET direct == DirectResult(EmbeddedOf(n), last.calls[n].input)
                    entry == ResGet(last.results, n)
                IN /\ direct # RaisedE
                   /\ ValueOf(entry, "image") = EntryImage(direct)
                   /\ ValueOf(entry, "data") = EntryData(direct)

\* an algorithm node was invoked with an image, its embedded pipeline
\* produced an image and data, and both are the node's outputs
C11_Witness ==
    /\ Ran
    /\ \E n \in NodeIds(doc) :
          /\ IsInvokedAlgorithm(n)
          /\ IsImg(last.calls[n].input)
          /\ IsImg(ValueOf(ResGet(last.results, n), "image"))
          /\ ValueOf(ResGet(last.results, n), "data") # None
          /\ ValueOf(ResGet(last.results, n), "data")
                = EntryData(DirectResult(EmbeddedOf(n), last.calls[n].input))

HasInput(d) == FirstOfType(d, "input") # 0
HasOutput(d) == FirstOfType(d, "output") # 0

\* C16: a document without an Input node or without an Output node is
\* rejected with an error when the executor is constructed, and execute never
\* returns a normal result for it.
C16_IncompleteRejected ==
    (~HasInput(doc) \/ ~HasOutput(doc)) =>
        /\ exec # "none" => ctorRaised
        /\ Ran => last.ret = RaisedE

(***************************************************************************)
(* Properties of the editor.                                               *)
(***************************************************************************)
\* the node appended by the last node addition
NewNode == canvas.nodes[Len(canvas.nodes)]

\* to_parameter values of the embedded connections that end at a node of
\* node_type output, and of those that leave a node of node_type input
TerminatingParameters(pd) ==
    {pd.connections[i].to_parameter :
        i \in {j \in DOMAIN pd.connections :
                  NodeTypeIn(pd, pd.connections[j].to_node) = "output"}}
LeavingParameters(pd) ==
    {pd.connections[i].to_parameter :
        i \in {j \in DOMAIN pd.connections :
                  NodeTypeIn(pd, pd.connections[j].from_node) = "input"}}

InputPortsDerived(node) ==
    input_points(node) =
        {"image"} \cup (LeavingParameters(node.pipeline_data) \ {NULL, MISSING})
EachOnce(list) == Cardinality(Range(list)) = Len(list)

\* C12 as stated: the output ports of a node created by add_algorithm_node
\* are exactly the to_parameter values of the embedded connections that end
\* at the embedded Output node, each once, and its input ports are the main
\* input and the parameter names fed by the embedded Input node.
C12_PortsAreEmbeddedParameters ==
    lastOp.op = "add_algorithm_node" =>
        /\ output_points(NewNode) = TerminatingParameters(NewNode.pipeline_data)
        /\ EachOnce(NewNode.algorithm_outputs)
        /\ InputPortsDerived(NewNode)

\* C12 amended: as C12, but a node whose embedded pipeline has no connection
\* ending at its Output node has the single output port "image".
C12_PortsWithFallback ==
    lastOp.op = "add_algorithm_node" =>
        /\ output_points(NewNode) =
              IF TerminatingParameters(NewNode.pipeline_data) = {} THEN {"image"}
              ELSE TerminatingParameters(NewNode.pipeline_data)
        /\ EachOnce(NewNode.algorithm_outputs)
        /\ InputPortsDerived(NewNode)

C12_Witness ==
    /\ lastOp.op = "add_algorithm_node"
    /\ NewNode.pipeline_data = NestedPorts
    /\ output_points(NewNode) = {"image", "data"}
    /\ input_points(NewNode) = {"image", "Value"}

\* C13: the canvas never holds two connections with the same
\* (from_node, from_output, to_node, to_parameter): a second add_connection
\* of an identical request adds nothing.
C13_NoDuplicateConnections ==
    \A i, j \in DOMAIN canvas.connections :
        i # j => canvas.connections[i] # canvas.connections[j]

\* the three conditions on a connection between nodes of canvas c; a
\* to_parameter of None names the main input "image"
ValidEnds(c, from_node, to_node, to_parameter, from_output) ==
    /\ from_node # to_node
    /\ from_node \in CanvasIds(c) /\ to_node \in CanvasIds(c)
    /\ from_output \in output_points(NodeById(c, from_node))
    /\ (IF to_parameter = NULL THEN "image" ELSE to_parameter)
          \in input_points(NodeById(c, to_node))

\* C14: every stored connection joins two different nodes, leaves an output
\* port of its source and enters an input port of its target; every request
\* that violates one of these is refused by add_connection (None, the canvas
\* unchanged).
C14_ConnectionsValid ==
    /\ \A i \in DOMAIN canvas.connections :
          ValidEnds(canvas, canvas.connections[i].from_node,
                    canvas.connections[i].to_node,
                    canvas.connections[i].to_parameter,
                    canvas.connections[i].from_output)
    /\ \A f, t \in CanvasIds(canvas) : \A tp \in RequestParameters :
          \A fo \in RequestOutputs :
             ~ValidEnds(canvas, f, t, tp, fo) =>
                 add_connection(canvas, f, t, tp, fo) =
                     [canvas |-> canvas, result |-> "None"]
    /\ (lastOp.op = "add_connection" /\ lastOp.result = "Connection") =>
          ValidEnds(canvas, lastOp.request[1], lastOp.request[2],
                    lastOp.request[3], lastOp.request[4])

\* a request from a port its source does not have was refused on a canvas
\* that holds a connection
C14_Witness ==
    /\ lastOp.op = "add_connection" /\ lastOp.result = "None"
    /\ lastOp.request[1] # lastOp.request[2]
    /\ lastOp.request[4] \notin output_points(NodeById(canvas, lastOp.request[1]))
    /\ Len(canvas.connections) > 0

NodesOfType(c, node_type) ==
    {i \in DOMAIN c.nodes : c.nodes[i].node_type = node_type}

\* C15: in every state of the canvas the node list holds exactly one Input
\* and exactly one Output node, and they are the two nodes the canvas was
\* constructed with: a load maps the input and output records of the
\* document onto them and creates none.
C15_OneInputOneOutput ==
    /\ Cardinality(NodesOfType(canvas, "input")) = 1
    /\ Cardinality(NodesOfType(canvas, "output")) = 1
    /\ SubSeq(canvas.nodes, 1, 2) = DefaultCanvas.nodes

\* a document with an input and an output record was loaded, and a
\* connection of its input record leaves the Input node of the canvas
C15_Witness ==
    /\ lastOp.op = "load" /\ lastOp.result = "loaded"
    /\ \E i, j \in DOMAIN lastOp.doc.nodes :
          /\ lastOp.doc.nodes[i].node_type = "input"
          /\ lastOp.doc.nodes[j].node_type = "output"
    /\ \E i \in DOMAIN canvas.connections : \E j \in DOMAIN lastOp.doc.connections :
          /\ lastOp.doc.nodes[1].id = lastOp.doc.connections[j].from_node
          /\ canvas.connections[i].from_node = DefaultCanvas.nodes[1].id
    /\ Len(canvas.nodes) = 3

\* a canvas without its node ids: the nodes in list order, and the set of
\* connections between list positions and port names
NodeView(c) ==
    [i \in DOMAIN c.nodes |->
        [name |-> c.nodes[i].name, node_type |-> c.nodes[i].node_type,
         parameters |-> c.nodes[i].parameters,
         pipeline_data |-> c.nodes[i].pipeline_data,
         algorithm_outputs |-> c.nodes[i].algorithm_outputs]]
PositionOf(c, id) == CHOOSE i \in DOMAIN c.nodes : c.nodes[i].id = id
ConnectionView(c) ==
    {<<PositionOf(c, c.connections[i].from_node), c.connections[i].from_output,
       PositionOf(c, c.connections[i].to_node), c.connections[i].to_parameter>> :
        i \in DOMAIN c.connections}

\* C17: after the document serialized from a canvas P is loaded, the canvas
\* has the nodes of P (name, type, parameters, pipeline_data,
\* algorithm_outputs) and the connections of P between the same ports.
C17_RoundTrip ==
    \A P \in SavedCanvases :
        (lastOp.op = "load" /\ lastOp.doc = serialize_pipeline(P)) =>
            /\ lastOp.result = "loaded"
            /\ NodeView(canvas) = NodeView(P)
            /\ ConnectionView(canvas) = ConnectionView(P)

\* C18: a load that fails leaves the nodes and connections of the canvas as
\* they were before it.
C18_FailedLoadUnchanged ==
    [][(lastOp'.op = "load" /\ lastOp'.result = "raised") => canvas' = canvas]_vars

\* the connection records of document d whose endpoints are both ids of
\* node records of d, and d with only these
RecordIds(d) == {d.nodes[i].id : i \in DOMAIN d.nodes}
Resolved(d, conn) == conn.from_node \in RecordIds(d) /\ conn.to_node \in RecordIds(d)
HasDangling(d) == \E i \in DOMAIN d.connections : ~Resolved(d, d.connections[i])
WithoutDangling(d) ==
    [d EXCEPT !.connections = SelectSeq(@, LAMBDA conn : Resolved(d, conn))]
SameOutcome(a, b) == a.canvas = b.canvas /\ a.raised = b.raised
PositionsPresent(d) == \A i \in DOMAIN d.nodes : d.nodes[i].position # MISSING
\* no record at which the node phase of the editor's load raises
OnlyLoadableRecords(d) ==
    PositionsPresent(d) /\ \A i \in DOMAIN d.nodes : d.nodes[i].node_type # "process"

\* C19: a connection record of a loaded document with an endpoint id that
\* no node was mapped to adds no connection and does not fail the load: in
\* the editor and in the preview of the processing scene the load ends as
\* the load of the document without these records, with all its nodes and
\* its other connections.
C19_DanglingDropped ==
    /\ \A d \in LoadDocs :
          /\ SameOutcome(deserialize_pipeline(canvas, d),
                         deserialize_pipeline(canvas, WithoutDangling(d)))
          /\ SameOutcome(deserialize_pipeline_to_canvas(d, DefaultCanvas),
                         deserialize_pipeline_to_canvas(WithoutDangling(d),
                                                        DefaultCanvas))
          /\ (HasDangling(d) /\ PositionsPresent(d)) =>
                ~deserialize_pipeline_to_canvas(d, DefaultCanvas).raised
    /\ (lastOp.op = "load" /\ HasDangling(lastOp.doc)
            /\ OnlyLoadableRecords(lastOp.doc)) =>
          /\ lastOp.result = "loaded"
          /\ Len(canvas.nodes) = Len(lastOp.doc.nodes)
          /\ Len(canvas.connections) >= Len(WithoutDangling(lastOp.doc).connections)

\* the document with two unresolved records was loaded: its algorithm node
\* and its two resolved connections are on the canvas
C19_Witness ==
    /\ lastOp.op = "load" /\ lastOp.doc = FileDangling /\ lastOp.result = "loaded"
    /\ HasDangling(lastOp.doc)
    /\ Len(canvas.nodes) = 3 /\ canvas.nodes[3].node_type = "algorithm"
    /\ ConnectionView(canvas) = {<<1, "image", 3, "image">>, <<3, "data", 2, "data">>}

(***************************************************************************)
(* Properties of the batch worker.                                         *)
(***************************************************************************)
Processed == Len(batch.outputs)

MaxOf(S) == CHOOSE x \in S : \A y \in S : y <= x

\* the number of pipelines embedded in each other below d
RECURSIVE NestingDepth(_)
NestingDepth(d) ==
    LET A == {k \in DOMAIN d.nodes : d.nodes[k].node_type = "algorithm"
                                     /\ d.nodes[k].pipeline_data # NoPipeline}
    IN IF A = {} THEN 0
       ELSE 1 + MaxOf({NestingDepth(d.nodes[k].pipeline_data) : k \in A})

\* the algorithm nodes of d for which a run with the given calls built a
\* sub-executor and called its execute
DfsRecursed(d, calls) ==
    {k \in DOMAIN d.nodes :
        /\ d.nodes[k].node_type = "algorithm"
        /\ d.nodes[k].pipeline_data # NoPipeline
        /\ calls[d.nodes[k].id].called
        /\ ~compute_execution_order(d.nodes[k].pipeline_data).raised}
BfsRecursed(d, calls) ==
    {k \in DOMAIN d.nodes :
        /\ d.nodes[k].node_type = "algorithm"
        /\ d.nodes[k].pipeline_data # NoPipeline
        /\ calls[d.nodes[k].id].called}

\* the longest chain of execute calls below a run of execute on d
RECURSIVE DfsDepth(_, _)
DfsDepth(d, calls) ==
    IF DfsRecursed(d, calls) = {} THEN 0
    ELSE 1 + MaxOf({DfsDepth(d.nodes[k].pipeline_data,
                             DfsExecute(d.nodes[k].pipeline_data,
                                        compute_execution_order(
                                            d.nodes[k].pipeline_data).order,
                                        calls[d.nodes[k].id].input).calls)
                    : k \in DfsRecursed(d, calls)})

RECURSIVE BfsDepth(_, _)
BfsDepth(d, calls) ==
    IF BfsRecursed(d, calls) = {} THEN 0
    ELSE 1 + MaxOf({BfsDepth(d.nodes[k].pipeline_data,
                             BfsExecute(d.nodes[k].pipeline_data,
                                        build_execution_order(
                                            d.nodes[k].pipeline_data),
                                        calls[d.nodes[k].id].input).calls)
                    : k \in BfsRecursed(d, calls)})

RunDepth ==
    IF exec = "dfs" THEN DfsDepth(doc, last.calls) ELSE BfsDepth(doc, last.calls)

\* the loop of execute came to the end of the order or ended with an error
LoopEnded ==
    \/ last.ret = RaisedE
    \/ \A i \in DOMAIN order :
          order[i] \in NodeIds(doc) => last.calls[order[i]].visited

KnownTo(e, name) ==
    IF e = "dfs" THEN name \in {"Add", "Object Characteristics"}
    ELSE name = "Brightness"
NameOf(d, n) == d.nodes[NodeIdx(d, n)].name
UnknownProcess(n) ==
    TypeOf(doc, n) = "process" /\ ~KnownTo(exec, NameOf(doc, n))

\* k has one connection, its main input, and that comes from the image of n
FedBy(k, n) ==
    \E i \in ConnsInto(doc, k) :
        /\ IsWorker(doc, k)
        /\ ConnsInto(doc, k) = {i}
        /\ doc.connections[i].from_node = n
        /\ doc.connections[i].from_output = "image"
        /\ i \in (IF exec = "dfs" THEN DfsMain(k) ELSE BfsMain(k))
        /\ Before(n, k)

\* the arrays that reach a process node inside the program: the batch worker
\* hands three-channel arrays to the dfs executor (processing_scene.py
\* 588-603) and each of its operators returns three channels
ProgramImage(v) == IsImg(v) /\ (exec = "dfs" => v[3] = 3)

Started(k) == Len(pscene.threads) >= k
Completed(k) == Started(k) /\ pscene.threads[k].state = "complete"
Count(seq, type) == Cardinality({i \in DOMAIN seq : seq[i].type = type})

\* C21: every batch that process_images starts eventually puts its COMPLETE
\* message on the queue, for every document that process_images accepts.
C21_BatchCompletes == \A k \in 1..MaxStarts : Started(k) ~> Completed(k)

\* C27: at most one worker thread of the processing scene is alive at any
\* time, whatever the order of selection changes, polling and clicks.
C27_OneWorkerAlive ==
    Cardinality({k \in DOMAIN pscene.threads : Alive(pscene.threads[k])}) <= 1

(***************************************************************************)
(* Properties of the camera thread.                                        *)
(***************************************************************************)
\* the frames whose pass through the loop body is over
Handled == IF cam.pc \in {"put", "full", "put_again"}
           THEN 1..(cam.captured - 1) ELSE 1..cam.captured

\* C24: the frame queue never holds more than 2 frames, and every captured
\* frame is put on the queue: when the queue is full it is the oldest frame
\* that goes, never the new one.
C24_NewestEnqueued ==
    /\ Len(cam.frame_queue) <= QueueMaxsize
    /\ Handled \subseteq cam.enqueued

(***************************************************************************)
(* Properties of the stage controller.                                     *)
(***************************************************************************)
\* C25: a homing run that has set the position to [0, 0, 0] has seen the
\* negative endstops of X, Y and Z triggered, also when stop was called
\* during the run.
C25_ZeroOnlyAtEndstops ==
    \A k \in DOMAIN stage.threads :
        stage.threads[k].zeroed => stage.threads[k].seen = Axes

\* C26: is_moving is True while a worker thread is executing, and no two
\* worker threads execute at the same time.  The formula is about the runs
\* in which every join of stop has returned because the worker had ended.
C26_OneMotionWorker ==
    ~stage.timed_out =>
        /\ Cardinality({k \in DOMAIN stage.threads :
                           WorkerAlive(stage.threads[k])}) <= 1
        /\ (\E k \in DOMAIN stage.threads : WorkerAlive(stage.threads[k]))
              => stage.is_moving

(***************************************************************************)
(* Properties of the state machine.                                        *)
(***************************************************************************)
\* C30: after switch_scene(name) has returned, a scene is registered under
\* name and it is the current scene.
C30_SwitchedSceneIsCurrent ==
    sm.switched # NULL =>
        /\ sm.scenes[sm.switched] # 0
        /\ sm.current_scene = sm.scenes[sm.switched]

NoRepetition(s) == \A i, j \in DOMAIN s : s[i] = s[j] => i = j
InputId(d) == d.nodes[FirstOfType(d, "input")].id

====
